---------------------------- MODULE Spec2Model ----------------------------
(***************************************************************************)
(* Model of the typing-tracker extension's change-classification and       *)
(* session-aggregation core (EventHandler in src/src/api-client.ts, its    *)
(* batch variant in src/src/event-handler.ts, helpers in                   *)
(* src/unnamed/part_000).                                                  *)
(*                                                                         *)
(* Text is a sequence of one-character strings.  Time is counted in        *)
(* milliseconds.  Handlers are async functions started with `void`, so a   *)
(* handler runs atomically up to its next real I/O await (clipboard read,  *)
(* HTTP send) and is resumed by a later step.                              *)
(***************************************************************************)
EXTENDS Integers, Sequences, FiniteSets, TLC

VARIABLES
    enabled,         \* ConfigManager.isEnabled()
    docLines,        \* the editor's document.lineCount of every file
    systemClipboard, \* what vscode.env.clipboard.readText() would return
    clipboardText,   \* EventHandler.clipboardText, the cached clipboard
    clipboardAge,    \* Date.now() - EventHandler.lastClipboardCheck, saturating
    heap,            \* the FileSession objects, by identity
    sessions,        \* EventHandler.sessions: the Map's sessions in insertion order
    timer,           \* the debounce closure's timeout: ms left, or NoTimer
    tasks,           \* handler invocations suspended at an await
    phase,           \* "active", "disposing" (dispose awaited), "deactivated"
    edits,           \* number of document edits so far
    observed,        \* the handler step just taken, where a specification records it
    args,            \* input of the pure function under test (pure specifications)
    result           \* its output

machineVars == <<enabled, docLines, systemClipboard, clipboardText, clipboardAge,
                 heap, sessions, timer, tasks, phase, edits, observed>>
pureVars == <<args, result>>
vars == <<enabled, docLines, systemClipboard, clipboardText, clipboardAge,
          heap, sessions, timer, tasks, phase, edits, observed, args, result>>

NoValue == [none |-> TRUE]

(***************************************************************************)
(* String helpers (JavaScript String.prototype semantics)                  *)
(***************************************************************************)
LF == "\n"
CR == "\r"

\* characters String.prototype.trim and the regex class \s remove, among
\* those the model's alphabet holds
IsWhitespace(c) == c \in {" ", "\n", "\r", "\t"}

RECURSIVE TrimStart(_)
TrimStart(s) ==
    IF s = <<>> THEN <<>>
    ELSE IF IsWhitespace(Head(s)) THEN TrimStart(Tail(s))
    ELSE s

RECURSIVE TrimEnd(_)
TrimEnd(s) ==
    IF s = <<>> THEN <<>>
    ELSE IF IsWhitespace(s[Len(s)]) THEN TrimEnd(SubSeq(s, 1, Len(s) - 1))
    ELSE s

\* String.prototype.trim
Trim(s) == TrimEnd(TrimStart(s))

\* String.prototype.includes
Includes(s, sub) ==
    \E i \in 0..(Len(s) - Len(sub)) : SubSeq(s, i + 1, i + Len(sub)) = sub

\* the matches of /\r?\n/g in text, each as its first and last position: every
\* line feed ends one match, which starts at a carriage return right before it
NewlineMatches(text) ==
    {[from |-> IF i > 1 /\ text[i - 1] = CR THEN i - 1 ELSE i, to |-> i] :
        i \in {j \in DOMAIN text : text[j] = LF}}

\* text.split(/\r?\n/): the segments before, between and after the matches
SplitLines(text) ==
    LET matches == NewlineMatches(text)
        n == Cardinality(matches)
        \* the k-th match from the left, 1 <= k <= n
        nth(k) == CHOOSE m \in matches :
                      Cardinality({o \in matches : o.to <= m.to}) = k
        segStart(k) == IF k = 0 THEN 1 ELSE nth(k).to + 1
        segEnd(k) == IF k = n THEN Len(text) ELSE nth(k + 1).from - 1
    IN  [k \in 1..(n + 1) |-> SubSeq(text, segStart(k - 1), segEnd(k - 1))]

countLines_NoEmptyCheck(text) == Len(SplitLines(text))

countLines(text) ==
    IF text = <<>> THEN 0
    ELSE Len(SplitLines(text))

(***************************************************************************)
(* ChangeClassifier: EventHandler.analyzeChange without its clipboard      *)
(* refresh, which the caller performs                                      *)
(***************************************************************************)
DeleteCharsPerLine == 50
LargeInsertionChars == 100

Max(a, b) == IF a >= b THEN a ELSE b

classify_NoPureInsertionCheck(text, rangeLength, clipboard) ==
    LET isDelete == rangeLength > 0 /\ Len(text) = 0
        lineCount == IF isDelete
                     THEN Max(1, rangeLength \div DeleteCharsPerLine)
                     ELSE countLines(text)
        clipboardMatch ==
            /\ Len(clipboard) > 0
            /\ \/ clipboard = text
               \/ Includes(clipboard, text)
               \/ Includes(text, Trim(clipboard))
    IN  [text |-> text, rangeLength |-> rangeLength,
         isPaste |-> ~isDelete /\ clipboardMatch
                     /\ (Cardinality(NewlineMatches(text)) > 1 \/ Len(text) > LargeInsertionChars),
         isDelete |-> isDelete, lineCount |-> lineCount]

classify_LooseSizeCheck(text, rangeLength, clipboard) ==
    LET isDelete == rangeLength > 0 /\ Len(text) = 0
        lineCount == IF isDelete
                     THEN Max(1, rangeLength \div DeleteCharsPerLine)
                     ELSE countLines(text)
        clipboardMatch ==
            /\ Len(clipboard) > 0
            /\ \/ clipboard = text
               \/ Includes(clipboard, text)
               \/ Includes(text, Trim(clipboard))
    IN  [text |-> text, rangeLength |-> rangeLength,
         isPaste |-> ~isDelete /\ rangeLength = 0 /\ clipboardMatch
                     /\ (Cardinality(NewlineMatches(text)) >= 1 \/ Len(text) >= LargeInsertionChars),
         isDelete |-> isDelete, lineCount |-> lineCount]

classify_CeilDeleteLines(text, rangeLength, clipboard) ==
    LET isDelete == rangeLength > 0 /\ Len(text) = 0
        lineCount == IF isDelete
                     THEN (rangeLength + DeleteCharsPerLine - 1) \div DeleteCharsPerLine
                     ELSE countLines(text)
        clipboardMatch ==
            /\ Len(clipboard) > 0
            /\ \/ clipboard = text
               \/ Includes(clipboard, text)
               \/ Includes(text, Trim(clipboard))
    IN  [text |-> text, rangeLength |-> rangeLength,
         isPaste |-> ~isDelete /\ rangeLength = 0 /\ clipboardMatch
                     /\ (Cardinality(NewlineMatches(text)) > 1 \/ Len(text) > LargeInsertionChars),
         isDelete |-> isDelete, lineCount |-> lineCount]

classify(text, rangeLength, clipboard) ==
    LET isDelete == rangeLength > 0 /\ Len(text) = 0
        lineCount == IF isDelete
                     THEN Max(1, rangeLength \div DeleteCharsPerLine)
                     ELSE countLines(text)
        hasMultipleLines == Cardinality(NewlineMatches(text)) > 1
        isLargeInsertion == Len(text) > LargeInsertionChars
        isPureInsertion == rangeLength = 0
        clipboardMatch ==
            /\ Len(clipboard) > 0
            /\ \/ clipboard = text
               \/ Includes(clipboard, text)
               \/ Includes(text, Trim(clipboard))
        isPaste == /\ ~isDelete
                   /\ isPureInsertion
                   /\ clipboardMatch
                   /\ (hasMultipleLines \/ isLargeInsertion)
    IN  [text |-> text, rangeLength |-> rangeLength, isPaste |-> isPaste,
         isDelete |-> isDelete, lineCount |-> lineCount]

(***************************************************************************)
(* JavaScript number arithmetic                                            *)
(***************************************************************************)
\* bits of an IEEE-754 double's significand (JavaScript numbers are doubles)
DoubleSignificandBits == 53

RECURSIVE Pow2(_)
Pow2(n) == IF n <= 0 THEN 1 ELSE 2 * Pow2(n - 1)

RECURSIVE FloorLog2(_)
FloorLog2(k) == IF k < 2 THEN 0 ELSE 1 + FloorLog2(k \div 2)

\* 2^m modulo total, by repeated squaring
RECURSIVE Pow2Mod(_, _)
Pow2Mod(m, total) ==
    IF m = 0 THEN 1 % total
    ELSE LET h == Pow2Mod(m \div 2, total)
         IN  (h * h * (IF m % 2 = 1 THEN 2 ELSE 1)) % total

\* The double nearest to part / total, 0 < part < total, by long division:
\* position n of its first 1 bit after the binary point, the remainder r left
\* after DoubleSignificandBits bits (the quotient is
\* (significand + r / total) * 2^-(n + 52)), and whether the significand is odd.
DoubleQuotient(part, total) ==
    LET n == CHOOSE i \in 1..total :
                 /\ part * Pow2(i) >= total
                 /\ \A j \in 1..(i - 1) : part * Pow2(j) < total
        before == (part * Pow2Mod(n + DoubleSignificandBits - 2, total)) % total
    IN  [n |-> n,
         r |-> (2 * before) % total,
         odd |-> 2 * before >= total]

\* Math.round(delta * (part / total)) in double arithmetic, for
\* 0 <= part <= total, total > 0, delta > 0.  Math.round takes the nearest
\* integer and an exact half up.  The rounding errors of the division and of
\* the product are far below 1 / (2 * total), so they matter only when
\* delta * part / total is exactly k + 1/2: the product then is below k + 1/2,
\* and Math.round gives k, when the quotient was rounded down by more than
\* half the gap between k + 1/2 and the double below it.
MathRoundOfShare(delta, part, total) ==
    IF part = 0 THEN 0
    ELSE IF part = total THEN delta
    ELSE LET k == (delta * part) \div total
             frac == (delta * part) % total
         IN  IF 2 * frac # total
             THEN (IF 2 * frac > total THEN k + 1 ELSE k)
             ELSE LET q == DoubleQuotient(part, total)
                      roundedDown ==
                          /\ q.r # 0
                          /\ (2 * q.r < total \/ (2 * q.r = total /\ ~q.odd))
                      \* k + 1/2 lies in [2^e, 2^(e+1)); below 1/2 = 2^-1 the
                      \* doubles are twice as dense
                      e == IF k = 0 THEN -1 ELSE FloorLog2(k)
                      shift == e + q.n + (IF k = 0 THEN 1 ELSE 2)
                  IN  IF roundedDown /\ 8 * delta * q.r > total * Pow2(shift)
                      THEN k
                      ELSE k + 1

(***************************************************************************)
(* extractSnippet                                                          *)
(***************************************************************************)
SnippetMaxLength == 100
MaxSnippets == 5

\* text.replace(/\s+/g, ' '): every maximal run of whitespace becomes one space
CollapseWhitespace(text) ==
    LET kept == {i \in DOMAIN text :
                    ~IsWhitespace(text[i]) \/ i = 1 \/ ~IsWhitespace(text[i - 1])}
        nth(k) == CHOOSE i \in kept : Cardinality({j \in kept : j <= i}) = k
    IN  [k \in 1..Cardinality(kept) |->
            IF IsWhitespace(text[nth(k)]) THEN " " ELSE text[nth(k)]]

extractSnippet_NoTrim(text, maxLength) ==
    IF text = <<>> THEN <<>>
    ELSE LET snippet == CollapseWhitespace(text)
         IN  IF Len(snippet) > maxLength
             THEN SubSeq(snippet, 1, maxLength) \o <<".", ".", ".">>
             ELSE snippet

extractSnippet(text, maxLength) ==
    IF text = <<>> THEN <<>>
    ELSE LET snippet == Trim(CollapseWhitespace(text))
         IN  IF Len(snippet) > maxLength
             THEN SubSeq(snippet, 1, maxLength) \o <<".", ".", ".">>
             ELSE snippet

(***************************************************************************)
(* SessionStore                                                            *)
(***************************************************************************)
Free == [free |-> TRUE]
NoTimer == -1

Range(f) == {f[x] : x \in DOMAIN f}

\* the session object getOrCreateSession builds for a document
NewSession(filePath, lineCount) ==
    [filePath |-> filePath, typedLines |-> 0, pastedLines |-> 0,
     deletedLines |-> 0, contentSnippets |-> <<>>,
     initialLineCount |-> lineCount, pendingChanges |-> FALSE]

HasSession(f) == \E id \in Range(sessions) : heap[id].filePath = f

\* sessions.get(filePath)
SessionAt(f) == CHOOSE id \in Range(sessions) : heap[id].filePath = f

\* sessions.delete(filePath)
WithoutPath(h, ss, f) == SelectSeq(ss, LAMBDA id : h[id].filePath # f)

\* updateSession pushing a snippet without evicting the oldest
updateSession_NoEviction(session, changeEvent) ==
    LET counted ==
            IF changeEvent.isDelete
            THEN [session EXCEPT !.deletedLines = @ + changeEvent.lineCount]
            ELSE IF changeEvent.isPaste
            THEN [session EXCEPT !.pastedLines = @ + changeEvent.lineCount]
            ELSE [session EXCEPT !.typedLines = @ + changeEvent.lineCount]
    IN  IF Len(Trim(changeEvent.text)) > 0
        THEN [counted EXCEPT !.contentSnippets =
                 Append(@, extractSnippet(changeEvent.text, SnippetMaxLength))]
        ELSE counted

\* updateSession counting a paste as typed lines as well
updateSession_PasteAlsoTyped(session, changeEvent) ==
    LET counted ==
            IF changeEvent.isDelete
            THEN [session EXCEPT !.deletedLines = @ + changeEvent.lineCount]
            ELSE IF changeEvent.isPaste
            THEN [session EXCEPT !.pastedLines = @ + changeEvent.lineCount,
                                 !.typedLines = @ + changeEvent.lineCount]
            ELSE [session EXCEPT !.typedLines = @ + changeEvent.lineCount]
    IN  IF Len(Trim(changeEvent.text)) > 0
        THEN LET pushed == Append(counted.contentSnippets,
                                  extractSnippet(changeEvent.text, SnippetMaxLength))
             IN  [counted EXCEPT !.contentSnippets =
                     IF Len(pushed) > MaxSnippets THEN Tail(pushed) ELSE pushed]
        ELSE counted

updateSession(session, changeEvent) ==
    LET counted ==
            IF changeEvent.isDelete
            THEN [session EXCEPT !.deletedLines = @ + changeEvent.lineCount]
            ELSE IF changeEvent.isPaste
            THEN [session EXCEPT !.pastedLines = @ + changeEvent.lineCount]
            ELSE [session EXCEPT !.typedLines = @ + changeEvent.lineCount]
    IN  IF Len(Trim(changeEvent.text)) > 0
        THEN LET pushed == Append(counted.contentSnippets,
                                  extractSnippet(changeEvent.text, SnippetMaxLength))
             IN  [counted EXCEPT !.contentSnippets =
                     IF Len(pushed) > MaxSnippets THEN Tail(pushed) ELSE pushed]
        ELSE counted

\* Reconcile redistributing also when the line count has not changed
Reconcile_NonNegativeDelta(session, currentLineCount) ==
    LET actualLineChange == currentLineCount - session.initialLineCount
        total == session.typedLines + session.pastedLines
    IN  IF actualLineChange >= 0 /\ total > 0
        THEN [session EXCEPT
                !.typedLines = MathRoundOfShare(actualLineChange,
                                                session.typedLines, total),
                !.pastedLines = MathRoundOfShare(actualLineChange,
                                                 session.pastedLines, total)]
        ELSE session

\* the reconciliation of handleDocumentSave and handleDocumentClose
Reconcile(session, currentLineCount) ==
    LET actualLineChange == currentLineCount - session.initialLineCount
        total == session.typedLines + session.pastedLines
    IN  IF actualLineChange > 0
        THEN IF total > 0
             THEN [session EXCEPT
                     !.typedLines = MathRoundOfShare(actualLineChange,
                                                     session.typedLines, total),
                     !.pastedLines = MathRoundOfShare(actualLineChange,
                                                      session.pastedLines, total)]
             ELSE [session EXCEPT !.typedLines = actualLineChange,
                                  !.pastedLines = 0]
        ELSE session

(***************************************************************************)
(* Flusher                                                                 *)
(***************************************************************************)
\* saveSession's early return
\* saveSession without its early return
NothingToSave_Never(session) == FALSE

NothingToSave(session) == session.typedLines = 0 /\ session.pastedLines = 0

\* an optional field of a record is the empty sequence when it is undefined
\* and the sequence of its value otherwise
undefined == <<>>

\* the settings getConfig answers when the user has set none of them
MachineConfig == [trackContentSnippets |-> FALSE]

\* createActivityLog attaching the last snippet whatever the setting
createActivityLog_AlwaysSnippet(config, session, actionType, typedLines, pastedLines) ==
    [filePath |-> session.filePath, actionType |-> actionType,
     typedLines |-> typedLines, pastedLines |-> pastedLines,
     totalLines |-> typedLines + pastedLines,
     contentSnippet |->
        IF Len(session.contentSnippets) > 0
        THEN <<session.contentSnippets[Len(session.contentSnippets)]>>
        ELSE undefined]

\* createActivityLog giving the typed lines as the total
createActivityLog_TotalTyped(config, session, actionType, typedLines, pastedLines) ==
    [filePath |-> session.filePath, actionType |-> actionType,
     typedLines |-> typedLines, pastedLines |-> pastedLines,
     totalLines |-> typedLines,
     contentSnippet |->
        IF config.trackContentSnippets /\ Len(session.contentSnippets) > 0
        THEN <<session.contentSnippets[Len(session.contentSnippets)]>>
        ELSE undefined]

\* createActivityLog under the settings config
createActivityLog(config, session, actionType, typedLines, pastedLines) ==
    [filePath |-> session.filePath, actionType |-> actionType,
     typedLines |-> typedLines, pastedLines |-> pastedLines,
     totalLines |-> typedLines + pastedLines,
     contentSnippet |->
        IF config.trackContentSnippets /\ Len(session.contentSnippets) > 0
        THEN <<session.contentSnippets[Len(session.contentSnippets)]>>
        ELSE undefined]

\* predominantAction calling a tie a paste
predominantAction_StrictMajority(session) ==
    IF session.typedLines > session.pastedLines THEN "typing" ELSE "paste"

\* the actionType saveSession gives its record
predominantAction(session) ==
    IF session.typedLines >= session.pastedLines THEN "typing" ELSE "paste"

\* LogsOf with a record that carries the lines of its actionType only
LogsOf_MajorityOnly(session) ==
    IF session.typedLines >= session.pastedLines
    THEN <<createActivityLog(MachineConfig, session, "typing", session.typedLines, 0)>>
    ELSE <<createActivityLog(MachineConfig, session, "paste", 0, session.pastedLines)>>

\* the records saveSession hands to the transport (single-record policy)
LogsOf(session) ==
    <<createActivityLog(MachineConfig, session, predominantAction(session),
                        session.typedLines, session.pastedLines)>>

\* the records the batch variant of saveSession hands to the transport
BatchLogsOf(session) ==
    (IF session.typedLines > 0
     THEN <<createActivityLog(MachineConfig, session, "typing", session.typedLines, 0)>>
     ELSE <<>>)
    \o
    (IF session.pastedLines > 0
     THEN <<createActivityLog(MachineConfig, session, "paste", 0, session.pastedLines)>>
     ELSE <<>>)

\* saveSession after a successful send
ResetCounters(session) ==
    [session EXCEPT !.typedLines = 0, !.pastedLines = 0, !.deletedLines = 0,
                    !.contentSnippets = <<>>, !.pendingChanges = FALSE]

SendOutcomes == {"ok", "transportError", "rejected"}

\* sendActivityLog taking any response of the backend for a success
sendActivityLog_AcceptRejected(outcome) == outcome # "transportError"

\* sendActivityLog never reporting a failure
sendActivityLog_AlwaysTrue(outcome) == TRUE

\* ApiClient.sendActivityLog: axios rejects on a transport error and on a
\* non-2xx response alike, and either is caught and answered with false
sendActivityLog(outcome) == outcome = "ok"

(***************************************************************************)
(* The event handler as a state machine                                    *)
(***************************************************************************)
MaxEdits == 2
MaxSessionObjects == 3
InitialDocLines == 2
ClipboardCacheMs == 500
DebounceIntervalMs == 2000

Files == {"a.ts", "b.ts"}
SessionIds == 1..MaxSessionObjects
TimeSteps == {DebounceIntervalMs}

PathOf(f) ==
    IF f = "a.ts" THEN <<"s", "r", "c", "/", "a", ".", "t", "s">>
    ELSE <<"s", "r", "c", "/", "b", ".", "t", "s">>

EndsWith(s, suffix) ==
    Len(s) >= Len(suffix) /\ SubSeq(s, Len(s) - Len(suffix) + 1, Len(s)) = suffix

shouldTrackFile(filePath) ==
    ~ \/ Includes(filePath, <<"n", "o", "d", "e", "_", "m", "o", "d", "u", "l", "e", "s">>)
      \/ Includes(filePath, <<".", "g", "i", "t", "/">>)
      \/ Includes(filePath, <<".", "v", "s", "c", "o", "d", "e">>)
      \/ Includes(filePath, <<".", "n", "e", "x", "t">>)
      \/ Includes(filePath, <<"d", "i", "s", "t", "/">>)
      \/ Includes(filePath, <<"b", "u", "i", "l", "d", "/">>)
      \/ Includes(filePath, <<"o", "u", "t", "/">>)
      \/ EndsWith(filePath, <<".", "l", "o", "g">>)
      \/ EndsWith(filePath, <<".", "l", "o", "c", "k">>)

\* the texts the editor inserts in the state machine
Keystroke == <<"x">>
Block == <<"x", LF, "x", LF, "x">>

\* one element of event.contentChanges, with the number of line breaks the
\* replaced range held (which the editor knows and the handler does not)
RawChanges ==
    { [text |-> Keystroke, rangeLength |-> 0, removedLineBreaks |-> 0],
      [text |-> Block, rangeLength |-> 0, removedLineBreaks |-> 0],
      [text |-> <<>>, rangeLength |-> 1, removedLineBreaks |-> 1] }

ChangeLists == {<<c>> : c \in RawChanges}

MachineClipboards == {<<>>, Block}

Saturate(ms) == IF ms > ClipboardCacheMs THEN ClipboardCacheMs + 1 ELSE ms

RECURSIVE LineChange(_)
LineChange(changes) ==
    IF changes = <<>> THEN 0
    ELSE Cardinality({i \in DOMAIN Head(changes).text : Head(changes).text[i] = LF})
            - Head(changes).removedLineBreaks + LineChange(Tail(changes))

\* suspended handler invocations
ClipboardTask(sid, changes) ==
    [kind |-> "change", session |-> sid, changes |-> changes, elapsed |-> 0,
     logs |-> <<>>, currentLineCount |-> 0, filePath |-> "", rest |-> <<>>,
     dispose |-> FALSE]
ConstructorTask ==
    [kind |-> "constructor", session |-> 0, changes |-> <<>>, elapsed |-> 0,
     logs |-> <<>>, currentLineCount |-> 0, filePath |-> "", rest |-> <<>>,
     dispose |-> FALSE]
SendTask(kind, sid, logs, currentLineCount, filePath, rest, dispose) ==
    [kind |-> kind, session |-> sid, changes |-> <<>>, elapsed |-> 0,
     logs |-> logs, currentLineCount |-> currentLineCount, filePath |-> filePath,
     rest |-> rest, dispose |-> dispose]

Sending(task) == task.kind \in {"save", "close", "flushAll"}
Reading(task) == task.kind \in {"change", "constructor"}

\* tasks without its t-th element
Without(ts, t) == SubSeq(ts, 1, t - 1) \o SubSeq(ts, t + 1, Len(ts))

FreeId(h) == CHOOSE id \in SessionIds : h[id] = Free /\ \A o \in SessionIds : h[o] = Free => id <= o

\* session objects still reachable from the Map or from a suspended handler
Referenced(ss, ts) ==
    Range(ss) \cup {ts[t].session : t \in {u \in DOMAIN ts : ts[u].kind # "constructor"}}
              \cup UNION {Range(ts[t].rest) : t \in DOMAIN ts}

\* the next state's sessions, tasks and heap; unreachable objects are collected
Commit(h, ss, ts) ==
    /\ sessions' = ss
    /\ tasks' = ts
    /\ heap' = [id \in SessionIds |-> IF id \in Referenced(ss, ts) THEN h[id] ELSE Free]

\* getOrCreateSession setting a new session also when the path has one
getOrCreateSession_AlwaysCreate(h, ss, f, lineCount) ==
    LET sid == FreeId(h)
    IN  [heap |-> [h EXCEPT ![sid] = NewSession(f, lineCount)],
         sessions |-> Append(ss, sid), sid |-> sid]

\* getOrCreateSession on the Map ss of the objects of h, for the document of
\* file f with lineCount lines: the Map and the objects it leaves and the
\* session it returns
getOrCreateSession(h, ss, f, lineCount) ==
    IF \E id \in Range(ss) : h[id].filePath = f
    THEN [heap |-> h, sessions |-> ss,
          sid |-> CHOOSE id \in Range(ss) : h[id].filePath = f]
    ELSE LET sid == FreeId(h)
         IN  [heap |-> [h EXCEPT ![sid] = NewSession(f, lineCount)],
              sessions |-> Append(ss, sid), sid |-> sid]

\* the part of a list of sessions that starts at the first one saveSession
\* sends something for
\* saveAllPendingSessions giving up after the first session it sends
FirstToSend_ThenStop(h, ss) ==
    LET sending == {i \in DOMAIN ss : ~NothingToSave(h[ss[i]])}
    IN  IF sending = {} THEN <<>>
        ELSE <<ss[CHOOSE i \in sending : \A j \in sending : i <= j]>>

RECURSIVE FirstToSend(_, _)
FirstToSend(h, ss) ==
    IF ss = <<>> THEN <<>>
    ELSE IF NothingToSave(h[Head(ss)]) THEN FirstToSend(h, Tail(ss))
    ELSE ss

\* the loop of handleTextChange over changes it analyses without awaiting
RECURSIVE ApplyChanges(_, _, _)
ApplyChanges(session, changes, clipboard) ==
    IF changes = <<>> THEN session
    ELSE ApplyChanges(
            updateSession(session,
                classify(Head(changes).text, Head(changes).rangeLength, clipboard)),
            Tail(changes), clipboard)

\* handleTextChange ending without marking the session
MarkPending_Skip(session) == session

\* the end of handleTextChange
MarkPending(session) == [session EXCEPT !.pendingChanges = TRUE]

\* updateClipboard forgetting the cached text when the read fails
updateClipboard_ClearOnFailure(readOk, system, cached) ==
    IF readOk THEN system ELSE <<>>

\* this.clipboardText after updateClipboard: the text read, or on a failed
\* read, which the catch absorbs, the text it had
updateClipboard(readOk, system, cached) ==
    IF readOk THEN system ELSE cached

\* the clipboard check of analyzeChange reading again at the limit already
CacheExpired_AtLimit(age) == age >= ClipboardCacheMs

\* now - this.lastClipboardCheck > 500
CacheExpired(age) == age > ClipboardCacheMs

MachineInit ==
    /\ enabled = TRUE
    /\ docLines = [f \in Files |-> InitialDocLines]
    /\ systemClipboard = Block
    /\ clipboardText = <<>>
    /\ clipboardAge = Saturate(ClipboardCacheMs + 1)
    /\ heap = [id \in SessionIds |-> Free]
    /\ sessions = <<>>
    /\ timer = NoTimer
    /\ tasks = <<ConstructorTask>>
    /\ phase = "active"
    /\ edits = 0
    /\ observed = NoValue

PureIdle == args = NoValue /\ result = NoValue

Init == MachineInit /\ PureIdle

\* onDidChangeTextDocument: the editor has applied the changes to the document
\* of file f and calls handleTextChange
HandleTextChange(f, changes) ==
    LET newLines == docLines[f] + LineChange(changes)
        existing == HasSession(f)
        got == getOrCreateSession(heap, sessions, f, newLines)
        sid == got.sid
        h1 == got.heap
        ss1 == got.sessions
    IN  /\ phase # "deactivated"
        /\ edits < MaxEdits
        /\ newLines >= 1
        /\ \A i \in DOMAIN changes : changes[i].removedLineBreaks < docLines[f]
        /\ edits' = edits + 1
        /\ docLines' = [docLines EXCEPT ![f] = newLines]
        /\ IF ~enabled \/ ~shouldTrackFile(PathOf(f)) \/ Len(changes) = 0
           THEN UNCHANGED <<heap, sessions, tasks, timer>>
           ELSE /\ existing \/ \E id \in SessionIds : heap[id] = Free
                /\ IF CacheExpired(clipboardAge)
                   THEN \* analyzeChange awaits updateClipboard
                        /\ Commit(h1, ss1, Append(tasks, ClipboardTask(sid, changes)))
                        /\ UNCHANGED timer
                   ELSE /\ Commit([h1 EXCEPT ![sid] =
                                     MarkPending(ApplyChanges(@, changes, clipboardText))],
                                  ss1, tasks)
                        /\ timer' = DebounceIntervalMs
        /\ UNCHANGED <<enabled, systemClipboard, clipboardText, clipboardAge, phase,
                       pureVars>>

\* the clipboard read awaited by updateClipboard settles
ClipboardReadDone(t, readOk) ==
    LET task == tasks[t]
        clip == updateClipboard(readOk, systemClipboard, clipboardText)
        sid == task.session
        first == updateSession(heap[sid],
                    classify(Head(task.changes).text, Head(task.changes).rangeLength, clip))
        more == Tail(task.changes)
    IN  /\ t \in DOMAIN tasks
        /\ Reading(task)
        /\ clipboardText' = clip
        /\ IF task.kind = "constructor"
           THEN /\ Commit(heap, sessions, Without(tasks, t))
                /\ UNCHANGED <<clipboardAge, timer>>
           ELSE /\ clipboardAge' = task.elapsed
                /\ IF more # <<>> /\ CacheExpired(task.elapsed)
                   THEN /\ Commit([heap EXCEPT ![sid] = first], sessions,
                                  Append(Without(tasks, t), ClipboardTask(sid, more)))
                        /\ UNCHANGED timer
                   ELSE /\ Commit([heap EXCEPT ![sid] =
                                     MarkPending(ApplyChanges(first, more, clip))],
                                  sessions, Without(tasks, t))
                        /\ timer' = DebounceIntervalMs
        /\ UNCHANGED <<enabled, docLines, systemClipboard, phase, edits, pureVars>>

\* handleDocumentSave building the record before it reconciles
HandleDocumentSave_RecordFirst(f) ==
    /\ phase # "deactivated"
    /\ IF ~HasSession(f) \/ ~heap[SessionAt(f)].pendingChanges
       THEN UNCHANGED <<heap, sessions, tasks>>
       ELSE LET sid == SessionAt(f)
                currentLineCount == docLines[f]
                session == Reconcile(heap[sid], currentLineCount)
            IN  IF NothingToSave(session)
                THEN Commit([heap EXCEPT ![sid] =
                               [session EXCEPT !.initialLineCount = currentLineCount]],
                            sessions, tasks)
                ELSE /\ Commit([heap EXCEPT ![sid] = session], sessions,
                               Append(tasks, SendTask("save", sid, LogsOf(heap[sid]),
                                                      currentLineCount, f, <<>>, FALSE)))
    /\ UNCHANGED <<enabled, docLines, systemClipboard, clipboardText, clipboardAge,
                   timer, phase, edits, pureVars>>

\* onDidSaveTextDocument
HandleDocumentSave(f) ==
    /\ phase # "deactivated"
    /\ IF ~HasSession(f) \/ ~heap[SessionAt(f)].pendingChanges
       THEN UNCHANGED <<heap, sessions, tasks>>
       ELSE LET sid == SessionAt(f)
                currentLineCount == docLines[f]
                session == Reconcile(heap[sid], currentLineCount)
            IN  IF NothingToSave(session)
                THEN Commit([heap EXCEPT ![sid] =
                               [session EXCEPT !.initialLineCount = currentLineCount]],
                            sessions, tasks)
                ELSE /\ Commit([heap EXCEPT ![sid] = session], sessions,
                               Append(tasks, SendTask("save", sid, LogsOf(session),
                                                      currentLineCount, f, <<>>, FALSE)))
    /\ UNCHANGED <<enabled, docLines, systemClipboard, clipboardText, clipboardAge,
                   timer, phase, edits, pureVars>>

\* onDidCloseTextDocument
HandleDocumentClose(f) ==
    /\ phase # "deactivated"
    /\ IF ~HasSession(f)
       THEN UNCHANGED <<heap, sessions, tasks>>
       ELSE LET sid == SessionAt(f)
                session == Reconcile(heap[sid], docLines[f])
            IN  IF ~heap[sid].pendingChanges
                THEN Commit(heap, WithoutPath(heap, sessions, f), tasks)
                ELSE IF NothingToSave(session)
                THEN Commit([heap EXCEPT ![sid] = session],
                            WithoutPath(heap, sessions, f), tasks)
                ELSE /\ Commit([heap EXCEPT ![sid] = session], sessions,
                               Append(tasks, SendTask("close", sid, LogsOf(session),
                                                      0, f, <<>>, FALSE)))
    /\ UNCHANGED <<enabled, docLines, systemClipboard, clipboardText, clipboardAge,
                   timer, phase, edits, pureVars>>

\* saveAllPendingSessions up to its first send
StartFlushAll(dispose) ==
    LET pendingSessions == SelectSeq(sessions, LAMBDA id : heap[id].pendingChanges)
        toSend == FirstToSend(heap, pendingSessions)
    IN  IF toSend = <<>>
        THEN IF dispose
             THEN Commit(heap, <<>>, tasks) /\ phase' = "deactivated"
             ELSE Commit(heap, sessions, tasks) /\ UNCHANGED phase
        ELSE /\ Commit(heap, sessions,
                       Append(tasks, SendTask("flushAll", Head(toSend),
                                              LogsOf(heap[Head(toSend)]),
                                              0, "", Tail(toSend), dispose)))
             /\ phase' = IF dispose THEN "disposing" ELSE phase

\* the debounce timeout fires and runs saveAllPendingSessions
TimerFire ==
    /\ timer = 0
    /\ timer' = NoTimer
    /\ StartFlushAll(FALSE)
    /\ UNCHANGED <<enabled, docLines, systemClipboard, clipboardText, clipboardAge,
                   edits, pureVars>>

\* deactivate() calls dispose
Dispose ==
    /\ phase = "active"
    /\ StartFlushAll(TRUE)
    /\ UNCHANGED <<enabled, docLines, systemClipboard, clipboardText, clipboardAge,
                   timer, edits, pureVars>>

\* the HTTP request of a suspended saveSession settles, and the handler that
\* awaited saveSession runs on to its next send or to its end
SendDone(t, outcome) ==
    LET task == tasks[t]
        sid == task.session
        success == sendActivityLog(outcome)
        h1 == IF success THEN [heap EXCEPT ![sid] = ResetCounters(@)] ELSE heap
        done == Without(tasks, t)
        next == FirstToSend(h1, task.rest)
    IN  /\ t \in DOMAIN tasks
        /\ Sending(task)
        /\ CASE task.kind = "save" ->
                  /\ Commit([h1 EXCEPT ![sid].initialLineCount = task.currentLineCount],
                            sessions, done)
                  /\ UNCHANGED phase
             [] task.kind = "close" ->
                  /\ Commit(h1, WithoutPath(h1, sessions, task.filePath), done)
                  /\ UNCHANGED phase
             [] task.kind = "flushAll" ->
                  IF next # <<>>
                  THEN /\ Commit(h1, sessions,
                                 Append(done, SendTask("flushAll", Head(next),
                                                       LogsOf(h1[Head(next)]),
                                                       0, "", Tail(next), task.dispose)))
                       /\ UNCHANGED phase
                  ELSE IF task.dispose
                  THEN Commit(h1, <<>>, done) /\ phase' = "deactivated"
                  ELSE Commit(h1, sessions, done) /\ UNCHANGED phase
        /\ UNCHANGED <<enabled, docLines, systemClipboard, clipboardText, clipboardAge,
                       timer, edits, pureVars>>

\* time passes; the debounce timeout fires before it passes its deadline
Advance(ms) ==
    /\ timer = NoTimer \/ timer >= ms
    /\ timer' = IF timer = NoTimer THEN NoTimer ELSE timer - ms
    /\ clipboardAge' = Saturate(clipboardAge + ms)
    /\ tasks' = [t \in DOMAIN tasks |->
                    IF tasks[t].kind = "change"
                    THEN [tasks[t] EXCEPT !.elapsed = Saturate(@ + ms)]
                    ELSE tasks[t]]
    /\ <<timer', clipboardAge', tasks'>> # <<timer, clipboardAge, tasks>>
    /\ UNCHANGED <<enabled, docLines, systemClipboard, clipboardText, heap, sessions,
                   phase, edits, pureVars>>

\* the user copies something
UserCopy(text) ==
    /\ text # systemClipboard
    /\ systemClipboard' = text
    /\ UNCHANGED <<enabled, docLines, clipboardText, clipboardAge, heap, sessions,
                   timer, tasks, phase, edits, pureVars>>

\* typingTracker.toggleTracking, or the setting changed by hand
ToggleEnabled ==
    /\ phase # "deactivated"
    /\ enabled' = ~enabled
    /\ UNCHANGED <<docLines, systemClipboard, clipboardText, clipboardAge, heap,
                   sessions, timer, tasks, phase, edits, pureVars>>

\* no clipboard read is awaited
NoRead == \A t \in DOMAIN tasks : ~Reading(tasks[t])

\* no HTTP request is awaited
NoSend == \A t \in DOMAIN tasks : ~Sending(tasks[t])

\* The environment of Spec: a clipboard read settles before the next event
\* arrives, a save, a close or the debounce timeout runs when no request is
\* in flight (changes still arrive while one is), tracking stays enabled and
\* the clipboard is not copied to again.  Spec records in `observed` the send
\* that has just settled.

\* what a specification records of a send that settles
SendSettled(t, outcome) == [op |-> "sendDone", session |-> tasks[t].session,
                            outcome |-> outcome]

Next ==
    \/ \E f \in Files, changes \in ChangeLists :
          NoRead /\ HandleTextChange(f, changes) /\ observed' = NoValue
    \/ \E t \in DOMAIN tasks, readOk \in BOOLEAN :
          ClipboardReadDone(t, readOk) /\ observed' = NoValue
    \/ \E f \in Files : NoRead /\ NoSend /\ HandleDocumentSave(f) /\ observed' = NoValue
    \/ \E f \in Files : NoRead /\ NoSend /\ HandleDocumentClose(f) /\ observed' = NoValue
    \/ NoRead /\ NoSend /\ TimerFire /\ observed' = NoValue
    \/ \E t \in DOMAIN tasks, outcome \in SendOutcomes :
          NoRead /\ SendDone(t, outcome) /\ observed' = SendSettled(t, outcome)
    \/ \E ms \in TimeSteps : NoRead /\ Advance(ms) /\ observed' = NoValue

Spec == Init /\ [][Next]_vars

(***************************************************************************)
(* Inputs of the classifier specification                                  *)
(***************************************************************************)
MaxTextLen == 3
MaxClipLen == 2

Alphabet == {"x", " ", LF, CR}

RECURSIVE SeqsUpTo(_, _)
SeqsUpTo(S, n) ==
    IF n = 0 THEN {<<>>}
    ELSE LET shorter == SeqsUpTo(S, n - 1)
         IN  shorter \cup {Append(s, c) : s \in {q \in shorter : Len(q) = n - 1}, c \in S}

Repeat(c, n) == [i \in 1..n |-> c]

\* s followed by as many "x" as bring it to n characters
PadTo(s, n) == s \o Repeat("x", n - Len(s))

FourLines == <<"a", LF, "b", LF, "c", LF, "d">>

LongSeeds == {<<>>, <<LF>>, <<"x", LF>>, <<LF, LF>>, <<CR, LF>>}

LongTexts ==
    {PadTo(s, LargeInsertionChars) : s \in LongSeeds}
        \cup {PadTo(s, LargeInsertionChars + 1) : s \in LongSeeds}

ClassifyTexts == SeqsUpTo(Alphabet, MaxTextLen) \cup LongTexts \cup {FourLines}

ClassifyClipboards ==
    SeqsUpTo(Alphabet, MaxClipLen) \cup LongTexts
        \cup {FourLines, FourLines \o <<LF>>, <<" ">> \o FourLines}

RangeLengths == {0, 1, 49, 50, 99, 100, 120}

InitClassify ==
    /\ MachineInit
    /\ args \in [text : ClassifyTexts, rangeLength : RangeLengths,
                 clipboard : ClassifyClipboards]
    /\ result = NoValue

ApplyClassify ==
    /\ result = NoValue
    /\ "clipboard" \in DOMAIN args
    /\ result' = classify(args.text, args.rangeLength, args.clipboard)
    /\ UNCHANGED <<args, machineVars>>

NextClassify == ApplyClassify

SpecClassify == InitClassify /\ [][NextClassify]_vars

Classified == result # NoValue /\ "clipboard" \in DOMAIN args


(***************************************************************************)
(* Inputs of the record specification: saveSession of either variant on a  *)
(* session that has something to save                                      *)
(***************************************************************************)
MaxTypedLines == 15
MaxPastedLines == 7

\* a session of file a.ts that has counted the given lines
CountedSession(typed, pasted, initial, pending) ==
    [NewSession("a.ts", initial) EXCEPT !.typedLines = typed,
                                        !.pastedLines = pasted,
                                        !.pendingChanges = pending]

InitRecords ==
    /\ MachineInit
    /\ \E typed \in 0..MaxTypedLines, pasted \in 0..MaxPastedLines :
          args = [session |-> CountedSession(typed, pasted, InitialDocLines, TRUE)]
    /\ result = NoValue

\* saveSession of src/src/api-client.ts up to its send
ApplySaveSession ==
    /\ result = NoValue
    /\ "session" \in DOMAIN args
    /\ ~NothingToSave(args.session)
    /\ result' = [policy |-> "single", logs |-> LogsOf(args.session)]
    /\ UNCHANGED <<args, machineVars>>

\* saveSession of src/src/event-handler.ts up to its send
ApplyBatchSaveSession ==
    /\ result = NoValue
    /\ "session" \in DOMAIN args
    /\ ~NothingToSave(args.session)
    /\ result' = [policy |-> "batch", logs |-> BatchLogsOf(args.session)]
    /\ UNCHANGED <<args, machineVars>>

NextRecords == ApplySaveSession \/ ApplyBatchSaveSession

SpecRecords == InitRecords /\ [][NextRecords]_vars

(***************************************************************************)
(* The reconciliation specification: the save and close handlers and the   *)
(* sends they await, started from a session of a.ts between two handlers,  *)
(* with every step recorded                                                *)
(***************************************************************************)
MaxLineGrowth == 15
BaseLineCounts == {2, 100}

InitReconcile ==
    /\ \E typed \in 0..MaxTypedLines, pasted \in 0..MaxPastedLines,
          pending \in BOOLEAN, initial \in BaseLineCounts,
          growth \in (0 - 1)..MaxLineGrowth :
          \* a successful send has zeroed the counters of a session that is
          \* not pending
          /\ ~pending => typed = 0 /\ pasted = 0
          /\ docLines = [f \in Files |-> IF f = "a.ts" THEN initial + growth
                                         ELSE InitialDocLines]
          /\ heap = [id \in SessionIds |->
                        IF id = 1 THEN CountedSession(typed, pasted, initial, pending)
                        ELSE Free]
    /\ sessions = <<1>>
    /\ enabled = TRUE
    /\ systemClipboard = Block
    /\ clipboardText = <<>>
    /\ clipboardAge = Saturate(ClipboardCacheMs + 1)
    /\ timer = NoTimer
    /\ tasks = <<>>
    /\ phase = "active"
    /\ edits = MaxEdits
    /\ observed = NoValue
    /\ PureIdle

NextReconcile ==
    \/ \E f \in Files :
          NoSend /\ HandleDocumentSave(f) /\ observed' = [op |-> "save", file |-> f]
    \/ \E f \in Files :
          NoSend /\ HandleDocumentClose(f) /\ observed' = [op |-> "close", file |-> f]
    \/ \E t \in DOMAIN tasks, outcome \in SendOutcomes :
          SendDone(t, outcome) /\ observed' = SendSettled(t, outcome)

SpecReconcile == InitReconcile /\ [][NextReconcile]_vars

(***************************************************************************)
(* Claims about the classifier, checked under SpecClassify                 *)
(***************************************************************************)
\* number of line-feed characters of a text, counted position by position
LineFeeds(text) == Cardinality({i \in DOMAIN text : text[i] = LF})

C7_LineDelta ==
    Classified =>
        LET t == args.text
            r == args.rangeLength
            n == result.lineCount
        IN  IF r > 0 /\ t = <<>>
            THEN /\ n >= 1
                 /\ (r < 50 => n = 1)
                 /\ (r >= 50 => 50 * n <= r /\ r < 50 * (n + 1))
                 /\ (r = 120 => n = 2)
            ELSE /\ n = (IF t = <<>> THEN 0 ELSE LineFeeds(t) + 1)
                 /\ (t = <<"x">> => n = 1)
                 /\ (t = FourLines => n = 4)

C7_Witness ==
    /\ Classified
    /\ args.text = <<>> /\ args.rangeLength = 120
    /\ result.isDelete /\ result.lineCount = 2

(***************************************************************************)
(* Claims about flushing, checked under Spec                               *)
(***************************************************************************)
\* the fields of a session that a flush resets
KeptFields(session) ==
    <<session.typedLines, session.pastedLines, session.deletedLines,
      session.contentSnippets, session.pendingChanges>>

\* o records a step of the given kind
IsOp(o, op) == "op" \in DOMAIN o /\ o.op = op

\* C1: a send that settles with a failure, a transport error or a response
\* the backend rejected, leaves typedLines, pastedLines, deletedLines,
\* contentSnippets and pendingChanges of the session it was for as they were,
\* and a save keeps the session in the store.
C1_FailedSendKeepsSession ==
    [][\A t \in DOMAIN tasks, outcome \in SendOutcomes \ {"ok"} :
          (SendDone(t, outcome) /\ observed' = SendSettled(t, outcome)) =>
              LET sid == tasks[t].session
              IN  /\ heap'[sid] # Free =>
                        KeptFields(heap'[sid]) = KeptFields(heap[sid])
                  /\ (tasks[t].kind = "save" /\ sid \in Range(sessions)) =>
                        heap'[sid] # Free]_vars

\* a rejected send has just settled for a session that still holds its lines,
\* its snippets and its pending mark
C1_Witness ==
    /\ IsOp(observed, "sendDone")
    /\ observed.outcome = "rejected"
    /\ heap[observed.session] # Free
    /\ heap[observed.session].typedLines + heap[observed.session].pastedLines > 0
    /\ heap[observed.session].contentSnippets # <<>>
    /\ heap[observed.session].pendingChanges

\* C2: the lines of a session go from non-zero to typedLines = 0 and
\* pastedLines = 0, and its pendingChanges goes from TRUE to FALSE, only in the
\* step in which a send for that session settles with success; no change,
\* save, close, timer or failed-send step does either.
C2_ResetOnlyBySuccessfulSend ==
    [][\A sid \in SessionIds :
          (/\ heap[sid] # Free
           /\ heap'[sid] # Free
           /\ \/ /\ heap[sid].typedLines + heap[sid].pastedLines > 0
                 /\ heap'[sid].typedLines = 0
                 /\ heap'[sid].pastedLines = 0
              \/ heap[sid].pendingChanges /\ ~heap'[sid].pendingChanges)
          => \E t \in DOMAIN tasks :
                /\ Sending(tasks[t])
                /\ tasks[t].session = sid
                /\ SendDone(t, "ok")
                /\ observed' = SendSettled(t, "ok")]_vars

\* a successful send has just settled and its session is zeroed and no
\* longer pending
C2_Witness ==
    /\ IsOp(observed, "sendDone")
    /\ observed.outcome = "ok"
    /\ heap[observed.session] # Free
    /\ heap[observed.session].typedLines = 0
    /\ heap[observed.session].pastedLines = 0
    /\ heap[observed.session].contentSnippets = <<>>
    /\ ~heap[observed.session].pendingChanges

\* C4 as stated: whenever no handler is suspended, every session has
\* pendingChanges = TRUE if and only if typedLines + pastedLines > 0.
C4_PendingIffCounted ==
    tasks = <<>> =>
        \A sid \in SessionIds :
            heap[sid] # Free =>
                (heap[sid].pendingChanges <=>
                    heap[sid].typedLines + heap[sid].pastedLines > 0)

\* C4: whenever no handler is suspended, every session with typedLines +
\* pastedLines > 0 has pendingChanges = TRUE.  (Not conversely: every handled
\* change, one that only deletes included, sets pendingChanges.)
C4_CountedIsPending ==
    tasks = <<>> =>
        \A sid \in SessionIds :
            (heap[sid] # Free /\ heap[sid].typedLines + heap[sid].pastedLines > 0)
                => heap[sid].pendingChanges

\* a handled change has counted lines for a session, no handler is suspended
\* and the debounce timer is armed
C4_Witness ==
    /\ tasks = <<>>
    /\ timer # NoTimer
    /\ \E sid \in Range(sessions) :
          /\ heap[sid].typedLines + heap[sid].pastedLines > 0
          /\ heap[sid].contentSnippets # <<>>
          /\ heap[sid].pendingChanges

(***************************************************************************)
(* Claims about the emitted records, checked under SpecRecords             *)
(***************************************************************************)
RECURSIVE SumOf(_, _)
SumOf(logs, field) ==
    IF logs = <<>> THEN 0 ELSE Head(logs)[field] + SumOf(Tail(logs), field)

\* C3: the records saveSession hands to the transport, under the
\* single-record policy and under the one-record-per-non-zero-category
\* policy, carry typedLines that sum to the session's typedLines and
\* pastedLines that sum to the session's pastedLines.
C3_RecordsCarryCounters ==
    (result # NoValue /\ "session" \in DOMAIN args) =>
        /\ result.logs # <<>>
        /\ SumOf(result.logs, "typedLines") = args.session.typedLines
        /\ SumOf(result.logs, "pastedLines") = args.session.pastedLines

\* a session with both typed and pasted lines, more pasted than typed, has
\* been turned into its single record
C3_Witness ==
    /\ result # NoValue
    /\ "session" \in DOMAIN args
    /\ result.policy = "single"
    /\ args.session.typedLines > 0
    /\ args.session.pastedLines > args.session.typedLines
    /\ Len(result.logs) = 1
    /\ result.logs[1].actionType = "paste"

(***************************************************************************)
(* Claims about reconciliation, checked under SpecReconcile                *)
(***************************************************************************)
\* the step taken is the save or the close handler of file f
SaveOrCloseOf(f) ==
    /\ HandleDocumentSave(f) \/ HandleDocumentClose(f)
    /\ IsOp(observed', "save") \/ IsOp(observed', "close")
    /\ observed'.file = f

\* n / d rounded to the nearest integer, a half up
RoundHalfUp(n, d) == (2 * n + d) \div (2 * d)

\* C8: a save or close that reconciles with delta = currentLineCount -
\* initialLineCount > 0 and T = typedLines + pastedLines > 0 sets typedLines
\* to round(delta * typedLines / T) and pastedLines to
\* round(delta * pastedLines / T), and the new sum is within 1 of delta; 10
\* typed and 0 pasted lines with the line count going from 100 to 115 become
\* 15 and 0.
C8_ProportionalRounding ==
    [][\A f \in Files :
          (/\ HasSession(f)
           /\ heap[SessionAt(f)].pendingChanges
           /\ docLines[f] > heap[SessionAt(f)].initialLineCount
           /\ heap[SessionAt(f)].typedLines + heap[SessionAt(f)].pastedLines > 0
           /\ SaveOrCloseOf(f))
          => LET sid == SessionAt(f)
                 old == heap[sid]
                 delta == docLines[f] - old.initialLineCount
                 T == old.typedLines + old.pastedLines
             IN  /\ heap'[sid] # Free
                 /\ heap'[sid].typedLines = RoundHalfUp(delta * old.typedLines, T)
                 /\ heap'[sid].pastedLines = RoundHalfUp(delta * old.pastedLines, T)
                 /\ heap'[sid].typedLines + heap'[sid].pastedLines - delta \in {-1, 0, 1}
                 /\ (old.typedLines = 10 /\ old.pastedLines = 0 /\ delta = 15) =>
                       heap'[sid].typedLines = 15 /\ heap'[sid].pastedLines = 0]_vars

\* C9: a save or close of a file that has a session, with the line count
\* grown since initialLineCount and typedLines + pastedLines = 0, sets
\* typedLines to the growth and pastedLines to 0.
C9_UntrackedGrowthIsTyped ==
    [][\A f \in Files :
          (/\ HasSession(f)
           /\ docLines[f] > heap[SessionAt(f)].initialLineCount
           /\ heap[SessionAt(f)].typedLines + heap[SessionAt(f)].pastedLines = 0
           /\ SaveOrCloseOf(f))
          => LET sid == SessionAt(f)
             IN  /\ heap'[sid] # Free
                 /\ heap'[sid].typedLines =
                       docLines[f] - heap[sid].initialLineCount
                 /\ heap'[sid].pastedLines = 0]_vars

\* C10: a save or close with currentLineCount <= initialLineCount leaves
\* typedLines and pastedLines of the session as they were (a close may remove
\* a session that has nothing to send).
C10_NoGrowthLeavesCounters ==
    [][\A f \in Files :
          (/\ HasSession(f)
           /\ docLines[f] <= heap[SessionAt(f)].initialLineCount
           /\ SaveOrCloseOf(f))
          => LET sid == SessionAt(f)
             IN  \/ heap'[sid] = Free /\ IsOp(observed', "close")
                 \/ /\ heap'[sid] # Free
                    /\ heap'[sid].typedLines = heap[sid].typedLines
                    /\ heap'[sid].pastedLines = heap[sid].pastedLines]_vars

\* a save has just reconciled a session whose document has lost a line, and
\* is sending the typed and pasted lines the session had
C10_Witness ==
    /\ IsOp(observed, "save")
    /\ HasSession(observed.file)
    /\ LET session == heap[SessionAt(observed.file)]
       IN  /\ docLines[observed.file] < session.initialLineCount
           /\ session.typedLines > 0
           /\ session.pastedLines > 0
           /\ tasks # <<>>
           /\ tasks[1].kind = "save"
           /\ tasks[1].logs[1].typedLines = session.typedLines
           /\ tasks[1].logs[1].pastedLines = session.pastedLines

(***************************************************************************)
(* The snippet specification: updateSession on a session that holds up to  *)
(* MaxSnippets snippets                                                    *)
(***************************************************************************)
SnippetSeeds == {<<"a">>, <<"b">>}

\* the changes a session is updated with: text and rangeLength
SnippetChanges ==
    { [text |-> <<"c">>, rangeLength |-> 0],
      [text |-> <<" ", "c", LF, " ", "d">>, rangeLength |-> 0],
      [text |-> <<"c">>, rangeLength |-> 1],
      [text |-> <<" ">>, rangeLength |-> 0],
      [text |-> <<LF>>, rangeLength |-> 0],
      [text |-> <<>>, rangeLength |-> 1] }

InitSnippets ==
    /\ MachineInit
    /\ \E snippets \in SeqsUpTo(SnippetSeeds, MaxSnippets), change \in SnippetChanges :
          args = [session |->
                     [CountedSession(Len(snippets), 0, InitialDocLines, TRUE)
                         EXCEPT !.contentSnippets = snippets],
                  changeEvent |-> classify(change.text, change.rangeLength, <<>>)]
    /\ result = NoValue

ApplyUpdateSession ==
    /\ result = NoValue
    /\ "changeEvent" \in DOMAIN args
    /\ result' = updateSession(args.session, args.changeEvent)
    /\ UNCHANGED <<args, machineVars>>

NextSnippets == ApplyUpdateSession

SpecSnippets == InitSnippets /\ [][NextSnippets]_vars

(***************************************************************************)
(* Claims about the snippets, checked under SpecSnippets                   *)
(***************************************************************************)
\* C11: a session's contentSnippets holds at most 5 entries in insertion
\* order: a change with non-blank text appends its snippet, and when 5 are
\* present the oldest is removed and the 4 newer ones are kept in order before
\* the new one; a change with blank or empty text leaves the snippets alone.
C11_SnippetsBoundedFifo ==
    (result # NoValue /\ "changeEvent" \in DOMAIN args) =>
        LET old == args.session.contentSnippets
            new == result.contentSnippets
            text == args.changeEvent.text
            snippet == extractSnippet(text, SnippetMaxLength)
        IN  /\ Len(old) <= 5
            /\ Len(new) <= 5
            /\ IF Trim(text) = <<>>
               THEN new = old
               ELSE IF Len(old) = 5
               THEN new = <<old[2], old[3], old[4], old[5], snippet>>
               ELSE new = Append(old, snippet)

\* a sixth snippet has been pushed to a session that held five distinct ones
C11_Witness ==
    /\ result # NoValue
    /\ "changeEvent" \in DOMAIN args
    /\ args.session.contentSnippets = <<<<"a">>, <<"b">>, <<"b">>, <<"a">>, <<"b">>>>
    /\ result.contentSnippets = <<<<"b">>, <<"b">>, <<"a">>, <<"b">>, <<"c", " ", "d">>>>

(***************************************************************************)
(* The debounce specification: the closure debounce() returns, called any  *)
(* number of times while time passes.  In it `args` holds the closure      *)
(* (its `timeout` handle and the timeouts it has armed in the event loop,  *)
(* by handle, with the ms each has left) and `result` what an observer     *)
(* has counted.                                                            *)
(***************************************************************************)
MaxDebounceCalls == 6
NoHandle == 0
TimerHandles == 1..(MaxDebounceCalls + 1)
DebounceTicks == {DebounceIntervalMs \div 4, DebounceIntervalMs}

\* clearTimeout(handle): no effect on a timeout that has fired or was cleared
clearTimeout(timers, handle) == [h \in DOMAIN timers \ {handle} |-> timers[h]]

\* setTimeout(callback, wait) answering handle
setTimeout(timers, handle, wait) ==
    [h \in DOMAIN timers \cup {handle} |-> IF h = handle THEN wait ELSE timers[h]]

\* the handle of a new Timeout object
FreshHandle(closure) ==
    CHOOSE h \in TimerHandles :
        /\ h \notin DOMAIN closure.timers /\ h # closure.timeout
        /\ \A k \in TimerHandles :
              (k \notin DOMAIN closure.timers /\ k # closure.timeout) => h <= k

\* the debounced function without its clearTimeout
debounced_NoClear(closure, wait) ==
    LET handle == FreshHandle(closure)
    IN  [timeout |-> handle, timers |-> setTimeout(closure.timers, handle, wait)]

\* one call of the function debounce() returns
debounced(closure, wait) ==
    LET cleared == IF closure.timeout # NoHandle
                   THEN clearTimeout(closure.timers, closure.timeout)
                   ELSE closure.timers
        handle == FreshHandle([closure EXCEPT !.timers = cleared])
    IN  [timeout |-> handle, timers |-> setTimeout(cleared, handle, wait)]

InitDebounce ==
    /\ MachineInit
    /\ args = [timeout |-> NoHandle, timers |-> [h \in {} |-> 0]]
    /\ result = [calls |-> 0, runs |-> 0, runsOfBurst |-> 0,
                 sinceCall |-> DebounceIntervalMs]

\* scheduleFlush: this.debouncedSave()
CallDebounced ==
    /\ "timers" \in DOMAIN args
    /\ result.calls < MaxDebounceCalls
    /\ args' = debounced(args, DebounceIntervalMs)
    /\ result' = [result EXCEPT !.calls = @ + 1, !.runsOfBurst = 0, !.sinceCall = 0]
    /\ UNCHANGED machineVars

\* an armed timeout is due and the event loop runs its callback
RunDebounced(handle) ==
    /\ "timers" \in DOMAIN args
    /\ handle \in DOMAIN args.timers
    /\ args.timers[handle] = 0
    /\ args' = [args EXCEPT !.timers = clearTimeout(@, handle)]
    /\ result' = [result EXCEPT !.runs = @ + 1, !.runsOfBurst = @ + 1]
    /\ UNCHANGED machineVars

\* time passes, a due timeout running before it does
TickDebounced(ms) ==
    /\ "timers" \in DOMAIN args
    /\ \A h \in DOMAIN args.timers : args.timers[h] >= ms
    /\ DOMAIN args.timers # {} \/ result.sinceCall < DebounceIntervalMs
    /\ args' = [args EXCEPT !.timers = [h \in DOMAIN @ |-> @[h] - ms]]
    /\ result' = [result EXCEPT
                     !.sinceCall = IF @ + ms > DebounceIntervalMs
                                   THEN DebounceIntervalMs ELSE @ + ms]
    /\ UNCHANGED machineVars

\* the event loop: time passing and due callbacks
NextDebounceLoop ==
    \/ \E handle \in TimerHandles : RunDebounced(handle)
    \/ \E ms \in DebounceTicks : TickDebounced(ms)

NextDebounce == CallDebounced \/ NextDebounceLoop

\* the event loop does not stop while a timeout is armed
SpecDebounce ==
    InitDebounce /\ [][NextDebounce]_vars /\ WF_vars(NextDebounceLoop)

(***************************************************************************)
(* Claims about the debounce timer, checked under SpecDebounce             *)
(***************************************************************************)
\* C12: at most one debounce timeout is armed at any time; a call cancels
\* the armed one and arms one for the full interval; the callback runs only
\* one full interval after the last call, at most once per burst of calls,
\* and once a timeout is armed the callback runs eventually.
C12_DebounceOncePerBurst ==
    /\ []("timers" \in DOMAIN args => Cardinality(DOMAIN args.timers) <= 1)
    /\ [][CallDebounced =>
             /\ DOMAIN args'.timers = {args'.timeout}
             /\ args'.timers[args'.timeout] = DebounceIntervalMs]_vars
    /\ [][(\E handle \in TimerHandles : RunDebounced(handle)) =>
             /\ result.sinceCall = DebounceIntervalMs
             /\ result'.runsOfBurst = 1
             /\ DOMAIN args'.timers = {}]_vars
    /\ [](("timers" \in DOMAIN args /\ DOMAIN args.timers # {})
             => <>(result.runsOfBurst = 1 /\ DOMAIN args.timers = {}))

\* the callback has run once although the function was called twice, the
\* second time while the first call's timeout was armed
C12_Witness ==
    /\ "timers" \in DOMAIN args
    /\ result.calls = 2
    /\ result.runs = 1
    /\ result.runsOfBurst = 1
    /\ result.sinceCall = DebounceIntervalMs
    /\ args.timeout = 2
    /\ DOMAIN args.timers = {}

(***************************************************************************)
(* Claims about the handlers of the machine, checked under Spec            *)
(***************************************************************************)
\* the debounce timeout runs saveAllPendingSessions in this step
TimerFires == timer = 0 /\ timer' = NoTimer

\* a pending session that has counted no typed and no pasted line
PendingUncounted(h, sid) ==
    /\ h[sid] # Free
    /\ h[sid].pendingChanges
    /\ h[sid].typedLines = 0
    /\ h[sid].pastedLines = 0

\* a request for the session is in flight
RequestFor(ts, sid) == \E t \in DOMAIN ts : Sending(ts[t]) /\ ts[t].session = sid

\* C13 as stated: saveSession on a session with typedLines = 0 and
\* pastedLines = 0 sends nothing, and after it the session's pendingChanges
\* is false.
C13_EmptyFlushClearsPending ==
    [][TimerFires =>
          \A sid \in Range(sessions) :
              PendingUncounted(heap, sid) =>
                  /\ ~RequestFor(tasks', sid)
                  /\ ~heap'[sid].pendingChanges]_vars

\* C13: saveSession on a session with typedLines = 0 and pastedLines = 0
\* sends nothing and leaves the session as it was, pendingChanges included.
C13_EmptyFlushChangesNothing ==
    [][TimerFires =>
          \A sid \in Range(sessions) :
              PendingUncounted(heap, sid) =>
                  /\ ~RequestFor(tasks', sid)
                  /\ heap'[sid] = heap[sid]]_vars

\* the timeout has fired over a session that only counted a deletion: it is
\* still pending and nothing was sent
C13_Witness ==
    /\ timer = NoTimer
    /\ tasks = <<>>
    /\ \E sid \in Range(sessions) :
          /\ PendingUncounted(heap, sid)
          /\ heap[sid].deletedLines > 0
          /\ \A o \in Range(sessions) : o = sid

(***************************************************************************)
(* Claims about the close handler, checked under SpecReconcile             *)
(***************************************************************************)
\* handleDocumentClose of file f runs in this step
CloseOf(f) ==
    /\ HandleDocumentClose(f)
    /\ IsOp(observed', "close")
    /\ observed'.file = f

\* C14 as stated: closing a file that has a session reconciles the session,
\* then attempts one flush of the reconciled counters, then removes the
\* session; when the handler is over, whatever the outcome of the send, no
\* session is left for the path.
C14_CloseReconcilesFlushesRemoves ==
    [][/\ \A f \in Files :
             (HasSession(f) /\ CloseOf(f)) =>
                 LET sid == SessionAt(f)
                     reconciled == Reconcile(heap[sid], docLines[f])
                 IN  IF NothingToSave(reconciled)
                     THEN \A id \in Range(sessions') : heap'[id].filePath # f
                     ELSE /\ \E t \in DOMAIN tasks' :
                                /\ tasks'[t].kind = "close"
                                /\ tasks'[t].session = sid
                                /\ tasks'[t].logs = LogsOf(reconciled)
                          /\ sid \in Range(sessions')
       /\ \A t \in DOMAIN tasks, outcome \in SendOutcomes :
             (tasks[t].kind = "close" /\ SendDone(t, outcome)) =>
                 \A id \in Range(sessions') : heap'[id].filePath # tasks[t].filePath]_vars

(***************************************************************************)
(* The shutdown specification: changes arrive and deactivate() runs        *)
(* dispose, whose listeners stay registered until dispose has returned.    *)
(* dispose starts when no request is in flight and the debounce timeout    *)
(* does not fire.  `observed` holds, from the call of dispose on, the      *)
(* sessions that were pending with lines to send at the call and the       *)
(* sessions dispose has sent a request for.                                *)
(***************************************************************************)
\* the sessions a request of dispose is in flight for
DisposeSends(ts) ==
    {ts[t].session : t \in {u \in DOMAIN ts : ts[u].kind = "flushAll" /\ ts[u].dispose}}

DisposeCalled ==
    [op |-> "dispose",
     due |-> {id \in Range(sessions) :
                 heap[id].pendingChanges
                 /\ heap[id].typedLines + heap[id].pastedLines > 0},
     sent |-> DisposeSends(tasks')]

DisposeGoesOn ==
    IF IsOp(observed, "dispose")
    THEN [observed EXCEPT !.sent = @ \cup DisposeSends(tasks')]
    ELSE observed

NextDispose ==
    \/ \E f \in Files, changes \in ChangeLists :
          NoRead /\ HandleTextChange(f, changes) /\ observed' = DisposeGoesOn
    \/ \E t \in DOMAIN tasks, readOk \in BOOLEAN :
          ClipboardReadDone(t, readOk) /\ observed' = DisposeGoesOn
    \/ NoRead /\ NoSend /\ Dispose /\ observed' = DisposeCalled
    \/ \E t \in DOMAIN tasks, outcome \in SendOutcomes :
          SendDone(t, outcome) /\ observed' = DisposeGoesOn

SpecDispose == Init /\ [][NextDispose]_vars

NextToggle ==
    \/ \E f \in Files, changes \in ChangeLists :
          /\ NoRead /\ HandleTextChange(f, changes)
          /\ observed' = [op |-> "change", file |-> f]
    \/ \E t \in DOMAIN tasks, readOk \in BOOLEAN :
          ClipboardReadDone(t, readOk) /\ observed' = [op |-> "read"]
    \/ \E f \in Files :
          /\ NoRead /\ NoSend /\ HandleDocumentSave(f)
          /\ observed' = [op |-> "save", file |-> f]
    \/ \E f \in Files :
          /\ NoRead /\ NoSend /\ HandleDocumentClose(f)
          /\ observed' = [op |-> "close", file |-> f]
    \/ \E t \in DOMAIN tasks, outcome \in SendOutcomes :
          NoRead /\ SendDone(t, outcome) /\ observed' = SendSettled(t, outcome)
    \/ NoRead /\ NoSend /\ ToggleEnabled /\ observed' = [op |-> "toggle"]

SpecToggle == Init /\ [][NextToggle]_vars

(***************************************************************************)
(* Claims about the enabled setting, checked under SpecToggle              *)
(***************************************************************************)
\* an editor event is handled in this step
EventHandled ==
    \/ \E f \in Files, changes \in ChangeLists :
          HandleTextChange(f, changes) /\ IsOp(observed', "change")
    \/ \E f \in Files : HandleDocumentSave(f) /\ IsOp(observed', "save")
    \/ \E f \in Files : HandleDocumentClose(f) /\ IsOp(observed', "close")

\* C16 as stated: while enabled is false, handling an event reads no
\* clipboard, creates no session, changes no counter of a session and arms
\* no flush timer.
C16_DisabledCoreDoesNothing ==
    [][(~enabled /\ EventHandled) =>
          /\ \A t \in DOMAIN tasks' : Reading(tasks'[t]) => \E u \in DOMAIN tasks : tasks[u] = tasks'[t]
          /\ Range(sessions') \subseteq Range(sessions)
          /\ \A id \in Range(sessions) \cap Range(sessions') :
                /\ heap'[id].typedLines = heap[id].typedLines
                /\ heap'[id].pastedLines = heap[id].pastedLines
                /\ heap'[id].deletedLines = heap[id].deletedLines
          /\ timer' = timer]_vars

(***************************************************************************)
(* The path specification: shouldTrackFile on the paths made of up to      *)
(* MaxPathDepth directories and a file name                                *)
(***************************************************************************)
MaxPathDepth == 2

DirectoryNames ==
    {<<"s", "r", "c">>,
     <<"o", "u", "t">>,
     <<"l", "a", "y", "o", "u", "t">>,
     <<"d", "i", "s", "t">>,
     <<"b", "u", "i", "l", "d">>,
     <<"r", "e", "b", "u", "i", "l", "d">>,
     <<".", "g", "i", "t">>,
     <<".", "g", "i", "t", "h", "u", "b">>,
     <<"n", "o", "d", "e", "_", "m", "o", "d", "u", "l", "e", "s">>,
     <<".", "v", "s", "c", "o", "d", "e">>,
     <<".", "n", "e", "x", "t">>}

FileNames ==
    {<<"a", ".", "t", "s">>,
     <<"a", ".", "l", "o", "g">>,
     <<"a", ".", "l", "o", "g", "s">>,
     <<"a", ".", "l", "o", "c", "k">>,
     <<"o", "u", "t">>,
     <<".", "g", "i", "t", "i", "g", "n", "o", "r", "e">>}

\* the path of a file in the directories dirs, outermost first
RECURSIVE JoinPath(_, _)
JoinPath(dirs, name) ==
    IF dirs = <<>> THEN name
    ELSE Head(dirs) \o <<"/">> \o JoinPath(Tail(dirs), name)

InitPaths ==
    /\ MachineInit
    /\ \E dirs \in SeqsUpTo(DirectoryNames, MaxPathDepth), name \in FileNames :
          args = [dirs |-> dirs, name |-> name, filePath |-> JoinPath(dirs, name)]
    /\ result = NoValue

ApplyShouldTrackFile ==
    /\ result = NoValue
    /\ "filePath" \in DOMAIN args
    /\ result' = [tracked |-> shouldTrackFile(args.filePath)]
    /\ UNCHANGED <<args, machineVars>>

NextPaths == ApplyShouldTrackFile

SpecPaths == InitPaths /\ [][NextPaths]_vars

(***************************************************************************)
(* Claims about the tracked paths, checked under SpecPaths                 *)
(***************************************************************************)
\* C17 as stated: a path is excluded exactly when it contains node_modules,
\* .git/, .vscode or .next, or has a directory named dist, build or out, or
\* ends with .log or .lock; every other path is tracked.
C17_ExcludedPaths ==
    (result # NoValue /\ "filePath" \in DOMAIN args) =>
        (result.tracked =
            ~ \/ Includes(args.filePath, <<"n", "o", "d", "e", "_", "m", "o", "d", "u", "l", "e", "s">>)
              \/ Includes(args.filePath, <<".", "g", "i", "t", "/">>)
              \/ Includes(args.filePath, <<".", "v", "s", "c", "o", "d", "e">>)
              \/ Includes(args.filePath, <<".", "n", "e", "x", "t">>)
              \/ \E i \in DOMAIN args.dirs :
                    args.dirs[i] \in {<<"d", "i", "s", "t">>, <<"b", "u", "i", "l", "d">>, <<"o", "u", "t">>}
              \/ EndsWith(args.filePath, <<".", "l", "o", "g">>)
              \/ EndsWith(args.filePath, <<".", "l", "o", "c", "k">>))

(***************************************************************************)
(* The sampling specification: the events of Spec with time passing in     *)
(* steps of half the cache time and the user copying to the clipboard.     *)
(* `observed` holds the handler that ran last.                             *)
(***************************************************************************)
SampleSteps == {ClipboardCacheMs \div 2, ClipboardCacheMs}

NextSample ==
    \/ \E f \in Files, changes \in ChangeLists :
          /\ NoRead /\ HandleTextChange(f, changes)
          /\ observed' = [op |-> "change", file |-> f, changes |-> changes]
    \/ \E t \in DOMAIN tasks, readOk \in BOOLEAN :
          /\ ClipboardReadDone(t, readOk)
          /\ observed' = [op |-> "read", readOk |-> readOk, kind |-> tasks[t].kind,
                          session |-> tasks[t].session, changes |-> tasks[t].changes]
    \/ \E text \in MachineClipboards : UserCopy(text) /\ observed' = [op |-> "copy"]
    \/ NoRead /\ NoSend /\ TimerFire /\ observed' = [op |-> "timer"]
    \/ \E t \in DOMAIN tasks, outcome \in SendOutcomes :
          NoRead /\ SendDone(t, outcome) /\ observed' = SendSettled(t, outcome)
    \/ \E ms \in SampleSteps : NoRead /\ Advance(ms) /\ observed' = [op |-> "advance"]

SpecSample == Init /\ [][NextSample]_vars

(***************************************************************************)
(* Claims about the clipboard cache, checked under SpecSample              *)
(***************************************************************************)
\* handleTextChange runs in this step on a change it handles
ChangeHandled ==
    /\ IsOp(observed', "change")
    /\ HandleTextChange(observed'.file, observed'.changes)

\* the handler of this step has gone on to read the clipboard
ReadStarted == Len(tasks') = Len(tasks) + 1 /\ Reading(tasks'[Len(tasks')])

\* the session of the file, classified against the cached text
ClassifiedAgainstCache(f, changes) ==
    \E id \in Range(sessions') :
        /\ heap'[id].filePath = f
        /\ heap'[id] = MarkPending(ApplyChanges(
                          IF HasSession(f) THEN heap[SessionAt(f)]
                          ELSE NewSession(f, docLines'[f]),
                          changes, clipboardText))

\* a clipboard read of a change handler settles with the text in this step
ReadSucceeds ==
    /\ IsOp(observed', "read")
    /\ observed'.readOk
    /\ observed'.kind = "change"

\* C18 as stated: a change handled less than 500 ms after the last check is
\* classified against the cached text without a read; in every other case,
\* exactly 500 ms included, the clipboard is read, and a read that succeeds
\* updates the cache.
C18_SampleReadsFromLimit ==
    [][/\ (ChangeHandled /\ clipboardAge < ClipboardCacheMs) =>
             /\ ~ReadStarted
             /\ ClassifiedAgainstCache(observed'.file, observed'.changes)
       /\ (ChangeHandled /\ clipboardAge >= ClipboardCacheMs) => ReadStarted
       /\ ReadSucceeds => clipboardText' = systemClipboard]_vars

\* C18: a change handled at most 500 ms after the last check is classified
\* against the cached text without a read; one handled more than 500 ms
\* after it reads the clipboard, and a read that succeeds updates the cache.
C18_SampleReadsPastLimit ==
    [][/\ (ChangeHandled /\ clipboardAge <= ClipboardCacheMs) =>
             /\ ~ReadStarted
             /\ ClassifiedAgainstCache(observed'.file, observed'.changes)
       /\ (ChangeHandled /\ clipboardAge > ClipboardCacheMs) => ReadStarted
       /\ ReadSucceeds => clipboardText' = systemClipboard]_vars

\* a change has just been handled exactly 500 ms after the last check,
\* without a read, while the clipboard holds a text the cache does not
C18_Witness ==
    /\ IsOp(observed, "change")
    /\ clipboardAge = ClipboardCacheMs
    /\ tasks = <<>>
    /\ clipboardText # systemClipboard
    /\ \E id \in Range(sessions) : heap[id].pendingChanges

\* a clipboard read of a change handler fails in this step
ReadFails ==
    /\ IsOp(observed', "read")
    /\ ~observed'.readOk
    /\ observed'.kind = "change"

\* C19: when the clipboard read a change handler awaits fails, the cached
\* text keeps its value and the handler goes on: the change is classified
\* against that text and applied to its session, which becomes pending, and
\* the flush timer is armed.
C19_FailedReadIsAbsorbed ==
    [][ReadFails =>
          LET sid == observed'.session
          IN  /\ clipboardText' = clipboardText
              /\ heap'[sid] =
                    MarkPending(ApplyChanges(heap[sid], observed'.changes, clipboardText))
              /\ ~ \E t \in DOMAIN tasks' : Reading(tasks'[t]) /\ tasks'[t].session = sid
              /\ timer' = DebounceIntervalMs]_vars

\* a read has just failed after the user emptied the clipboard, and the
\* three inserted lines were counted as pasted against the text still cached
C19_Witness ==
    /\ IsOp(observed, "read")
    /\ ~observed.readOk
    /\ observed.kind = "change"
    /\ observed.changes = <<[text |-> Block, rangeLength |-> 0, removedLineBreaks |-> 0]>>
    /\ systemClipboard = <<>>
    /\ clipboardText = Block
    /\ heap[observed.session].pastedLines = 3
    /\ heap[observed.session].typedLines = 0
    /\ heap[observed.session].pendingChanges

(***************************************************************************)
(* The content specification: two runs that start from the same session,   *)
(* clipboard and settings and insert texts of their own; each applies its  *)
(* insertion and builds the record saveSession would send.                 *)
(***************************************************************************)
ContentTexts ==
    {<<"a">>, <<"b">>, <<" ">>, <<"a", LF, "b">>, <<"b", LF, "a">>,
     <<"a", LF, "b", LF, "c">>, Block}

InitContent ==
    /\ MachineInit
    /\ \E track \in BOOLEAN, snippets \in SeqsUpTo(SnippetSeeds, 1),
          clipboard \in MachineClipboards, first \in ContentTexts,
          second \in ContentTexts :
          args = [config |-> [trackContentSnippets |-> track],
                  session |-> [CountedSession(0, 0, InitialDocLines, FALSE)
                                  EXCEPT !.contentSnippets = snippets],
                  clipboard |-> clipboard,
                  texts |-> <<first, second>>]
    /\ result = NoValue

\* the session of a run after its insertion
SessionOfRun(run) ==
    updateSession(args.session, classify(args.texts[run], 0, args.clipboard))

ApplyCreateActivityLog ==
    /\ result = NoValue
    /\ "texts" \in DOMAIN args
    /\ result' = [run \in 1..2 |->
                    createActivityLog(args.config, SessionOfRun(run),
                                      predominantAction(SessionOfRun(run)),
                                      SessionOfRun(run).typedLines,
                                      SessionOfRun(run).pastedLines)]
    /\ UNCHANGED <<args, machineVars>>

NextContent == ApplyCreateActivityLog

SpecContent == InitContent /\ [][NextContent]_vars

(***************************************************************************)
(* Claims about the content of records, checked under SpecContent          *)
(***************************************************************************)
RecordsBuilt == result # NoValue /\ "texts" \in DOMAIN args

\* the last snippet of a session, if it has one
LastSnippet(session) ==
    IF session.contentSnippets = <<>> THEN undefined
    ELSE <<session.contentSnippets[Len(session.contentSnippets)]>>

SameLineStructure == countLines(args.texts[1]) = countLines(args.texts[2])

SameClassification ==
    classify(args.texts[1], 0, args.clipboard).isPaste
        = classify(args.texts[2], 0, args.clipboard).isPaste

\* C20 as stated: with trackContentSnippets false no record carries a
\* contentSnippet, and two runs whose inserted texts have the same line
\* structure build the same record; with it true the record carries the
\* last snippet of the session, if there is one.
C20_ContentStaysPrivate ==
    RecordsBuilt =>
        /\ ~args.config.trackContentSnippets =>
              /\ \A run \in 1..2 : result[run].contentSnippet = undefined
              /\ SameLineStructure => result[1] = result[2]
        /\ args.config.trackContentSnippets =>
              \A run \in 1..2 :
                  result[run].contentSnippet = LastSnippet(SessionOfRun(run))

\* C20: with trackContentSnippets false no record carries a contentSnippet,
\* and two runs whose inserted texts have the same line structure and are
\* both classified as a paste or both not build the same record; with it
\* true the record carries the last snippet of the session, if there is one.
C20_SnippetOnlyWhenTracked ==
    RecordsBuilt =>
        /\ ~args.config.trackContentSnippets =>
              /\ \A run \in 1..2 : result[run].contentSnippet = undefined
              /\ (SameLineStructure /\ SameClassification) => result[1] = result[2]
        /\ args.config.trackContentSnippets =>
              \A run \in 1..2 :
                  result[run].contentSnippet = LastSnippet(SessionOfRun(run))

\* with the setting off, two runs that insert different texts of two lines
\* into a session holding a snippet have built the same record, without a
\* snippet
C20_Witness ==
    /\ RecordsBuilt
    /\ ~args.config.trackContentSnippets
    /\ args.session.contentSnippets # <<>>
    /\ args.texts = << <<"a", LF, "b">>, <<"b", LF, "a">> >>
    /\ result[1] = result[2]
    /\ result[1].contentSnippet = undefined
    /\ result[1].typedLines = 2

(***************************************************************************)
(* Claims about the records in flight, checked under SpecReconcile         *)
(***************************************************************************)
\* the records of the requests in flight
RecordsInFlight ==
    UNION {Range(tasks[t].logs) : t \in {u \in DOMAIN tasks : Sending(tasks[u])}}

\* C21: every record handed to the transport has totalLines = typedLines +
\* pastedLines, typedLines >= 0, pastedLines >= 0 and totalLines > 0.
C21_RecordTotals ==
    \A log \in RecordsInFlight :
        /\ log.totalLines = log.typedLines + log.pastedLines
        /\ log.typedLines >= 0
        /\ log.pastedLines >= 0
        /\ log.totalLines > 0

\* the record of a save is in flight with typed and pasted lines, the
\* counters its session has after the reconciliation
C21_Witness ==
    /\ IsOp(observed, "save")
    /\ \E log \in RecordsInFlight :
          /\ log.typedLines > 0
          /\ log.pastedLines > 0
          /\ log.totalLines = docLines["a.ts"] - 2
          /\ \E id \in Range(sessions) :
                /\ heap[id].typedLines = log.typedLines
                /\ heap[id].pastedLines = log.pastedLines

(***************************************************************************)
(* The configuration specification: the user edits the settings and the    *)
(* editor calls the configuration listener.  `args` holds the settings     *)
(* store of the editor, the snapshot ConfigManager keeps of it, the        *)
(* baseURL of the axios client and the wait of the debounced save;         *)
(* `result` holds what happened last.                                      *)
(***************************************************************************)
Endpoints == {"http://localhost:3000/api", "https://tracker.example/api"}
DebounceIntervals == {DebounceIntervalMs \div 2, DebounceIntervalMs, 2 * DebounceIntervalMs}

Settings ==
    [apiEndpoint : Endpoints, enabled : BOOLEAN, debounceInterval : DebounceIntervals]

\* ConfigManager.refresh: a new snapshot of the settings
refresh(core) == [core EXCEPT !.config = core.settings]

\* ApiClient.refreshClient: a new client from getConfig().apiEndpoint
refreshClient(core) == [core EXCEPT !.baseURL = core.config.apiEndpoint]

\* activation: ConfigManager, ApiClient and EventHandler are constructed
InitConfig ==
    /\ MachineInit
    /\ \E settings \in Settings :
          args = [settings |-> settings, config |-> settings,
                  baseURL |-> settings.apiEndpoint,
                  wait |-> settings.debounceInterval,
                  notified |-> TRUE]
    /\ result = [op |-> "activate"]

\* the user edits one setting; the editor will call the listener
EditSetting(settings) ==
    /\ "settings" \in DOMAIN args
    /\ settings # args.settings
    /\ args' = [args EXCEPT !.settings = settings, !.notified = FALSE]
    /\ result' = [op |-> "edit"]
    /\ UNCHANGED machineVars

\* onDidChangeConfiguration: configManager.refresh(); apiClient.refreshClient()
HandleConfigChange ==
    /\ "settings" \in DOMAIN args
    /\ ~args.notified
    /\ args' = [refreshClient(refresh(args)) EXCEPT !.notified = TRUE]
    /\ result' = [op |-> "configChange"]
    /\ UNCHANGED machineVars

NextConfig ==
    \/ \E settings \in Settings : EditSetting(settings)
    \/ HandleConfigChange

SpecConfig == InitConfig /\ [][NextConfig]_vars

(***************************************************************************)
(* Claims about configuration changes, checked under SpecConfig            *)
(***************************************************************************)
\* C22 as stated: once a configuration change has been handled, the
\* endpoint of the client, the enabled flag the core reads and the wait of
\* the debounced save are those of the new settings.
C22_ConfigChangeReachesCore ==
    ("settings" \in DOMAIN args /\ IsOp(result, "configChange")) =>
        /\ args.baseURL = args.settings.apiEndpoint
        /\ args.config.enabled = args.settings.enabled
        /\ args.wait = args.settings.debounceInterval

(***************************************************************************)
(* The backend: the routes of activity.routes.ts over the two collections. *)
(* In the backend specification `args` holds the database, the stored logs *)
(* and the summary of each user and date, and `result` the last response.  *)
(***************************************************************************)
MaxLogs == 2

Users == {"u1", "u2"}
Dates == {"2026-01-01"}
SummaryKeys == Users \X Dates

\* body('actionType').isIn([...]) of the route
RouteActionTypes == {"typing", "paste", "delete", "cut"}

\* enum of actionType in ActivityLogSchema
SchemaActionTypes == {"typing", "paste"}

\* the paths of UserActivitySummarySchema
SummarySchemaPaths ==
    {"username", "date", "totalTypedLines", "totalPastedLines",
     "typingToPastingRatio", "totalFilesEdited"}

\* the request bodies of the model; an empty username and a negative count
\* stand for the fields a client can get wrong
Bodies ==
    [username : Users \cup {""}, date : Dates, filePath : Files,
     actionType : RouteActionTypes \cup {"rename"},
     typedLines : (0 - 1)..1, pastedLines : 0..1]

\* the bodies of batch requests
BatchBodies ==
    [username : Users, date : Dates, filePath : Files,
     actionType : {"typing", "delete"},
     typedLines : {1}, pastedLines : 0..1]

\* activityLogValidation: no error for the body, over the fields the model
\* gives a body
activityLogValidation(body) ==
    /\ body.username # ""
    /\ body.filePath # ""
    /\ body.actionType \in RouteActionTypes
    /\ body.typedLines >= 0
    /\ body.pastedLines >= 0

\* validation of a document against ActivityLogSchema on save and insertMany
ActivityLogSchema(doc) ==
    /\ doc.username # ""
    /\ doc.filePath # ""
    /\ doc.actionType \in SchemaActionTypes
    /\ doc.typedLines >= 0
    /\ doc.pastedLines >= 0

\* a summary as upsert creates it: the defaults of the schema
NewSummary ==
    [exists |-> TRUE, totalTypedLines |-> 0, totalPastedLines |-> 0,
     typingToPastingRatio |-> [hundredths |-> 0], totalFilesEdited |-> 0,
     files |-> {}]

NoSummary == [exists |-> FALSE]

\* Number((typed / pasted).toFixed(2)) in hundredths: toFixed takes the
\* nearest hundredth of the double typed / pasted and of two equally near the
\* larger.  The double is so close to the quotient that the two can differ
\* only when the quotient is exactly k hundredths and a half, and then toFixed
\* gives k when the division was rounded down.
ToFixed2(typed, pasted) ==
    LET k == (100 * typed) \div pasted
        frac == (100 * typed) % pasted
    IN  IF 2 * frac # pasted
        THEN (IF 2 * frac > pasted THEN k + 1 ELSE k)
        ELSE LET total == pasted * Pow2(FloorLog2(typed \div pasted) + 1)
                 q == DoubleQuotient(typed, total)
                 roundedDown ==
                     /\ q.r # 0
                     /\ (2 * q.r < total \/ (2 * q.r = total /\ ~q.odd))
             IN  IF roundedDown THEN k ELSE k + 1

Infinity == [infinite |-> TRUE]

\* calculateRatio, a finite ratio in hundredths
calculateRatio(typed, pasted) ==
    IF pasted = 0
    THEN (IF typed > 0 THEN Infinity ELSE [hundredths |-> 0])
    ELSE [hundredths |-> ToFixed2(typed, pasted)]

\* findOneAndUpdate with upsert of updateUserSummary and
\* updateUserSummaryBatch: $inc of the two totals; $addToSet on files reaches
\* the document only if the schema has the path
UpsertSummary(summaries, key, typedLines, pastedLines, filePaths) ==
    LET old == IF summaries[key].exists THEN summaries[key] ELSE NewSummary
    IN  [summaries EXCEPT ![key] =
            [old EXCEPT !.totalTypedLines = @ + typedLines,
                        !.totalPastedLines = @ + pastedLines,
                        !.files = IF "files" \in SummarySchemaPaths
                                  THEN @ \cup filePaths ELSE @]]

\* updateUserSummary and updateUserSummaryBatch: the summaries they leave and
\* whether they threw; summary.files is undefined when the schema has no
\* such path, and reading its length throws
updateUserSummary(summaries, key, typedLines, pastedLines, filePaths) ==
    LET upserted == UpsertSummary(summaries, key, typedLines, pastedLines, filePaths)
        summary == upserted[key]
    IN  IF "files" \notin SummarySchemaPaths
        THEN [summaries |-> upserted, threw |-> TRUE]
        ELSE [summaries |->
                [upserted EXCEPT ![key] =
                    [summary EXCEPT
                        !.totalFilesEdited = Cardinality(summary.files),
                        !.typingToPastingRatio =
                            calculateRatio(summary.totalTypedLines,
                                           summary.totalPastedLines)]],
              threw |-> FALSE]

InitBackend ==
    /\ MachineInit
    /\ args = [logs |-> <<>>, summaries |-> [key \in SummaryKeys |-> NoSummary]]
    /\ result = [op |-> "listen"]

\* POST /api/activity
PostActivity(body) ==
    LET summarised == updateUserSummary(args.summaries, <<body.username, body.date>>,
                                        body.typedLines, body.pastedLines,
                                        {body.filePath})
    IN  /\ "logs" \in DOMAIN args
        /\ Len(args.logs) < MaxLogs
        /\ IF ~activityLogValidation(body)
           THEN /\ args' = args
                /\ result' = [op |-> "post", body |-> body, status |-> 400]
           ELSE IF ~ActivityLogSchema(body)
           THEN /\ args' = args
                /\ result' = [op |-> "post", body |-> body, status |-> 500]
           ELSE /\ args' = [logs |-> Append(args.logs, body),
                            summaries |-> summarised.summaries]
                /\ result' = [op |-> "post", body |-> body,
                              status |-> IF summarised.threw THEN 500 ELSE 201]
        /\ UNCHANGED machineVars

\* the keys of the summaryUpdates map of a batch, in the order of insertion
RECURSIVE BatchKeys(_)
BatchKeys(logs) ==
    IF logs = <<>> THEN <<>>
    ELSE LET before == BatchKeys(SubSeq(logs, 1, Len(logs) - 1))
             key == <<logs[Len(logs)].username, logs[Len(logs)].date>>
         IN  IF key \in Range(before) THEN before ELSE Append(before, key)

\* the entry of the summaryUpdates map for a key
BatchEntry(logs, key) ==
    LET of == SelectSeq(logs, LAMBDA log : <<log.username, log.date>> = key)
    IN  [typed |-> SumOf(of, "typedLines"),
         pasted |-> SumOf(of, "pastedLines"),
         files |-> {log.filePath : log \in Range(of)}]

\* the loop over the summaryUpdates map: it ends at the first update that throws
RECURSIVE UpdateSummaries(_, _, _)
UpdateSummaries(summaries, logs, keys) ==
    IF keys = <<>> THEN [summaries |-> summaries, threw |-> FALSE]
    ELSE LET entry == BatchEntry(logs, Head(keys))
             one == updateUserSummary(summaries, Head(keys), entry.typed,
                                      entry.pasted, entry.files)
         IN  IF one.threw THEN one
             ELSE UpdateSummaries(one.summaries, logs, Tail(keys))

\* the arrays of batch requests
Batches == {<<>>} \cup {<<b>> : b \in BatchBodies} \cup (BatchBodies \X BatchBodies)

\* POST /api/activity/batch; insertMany stores no document when one of them
\* fails the validation of the schema
PostBatch(logs) ==
    LET summarised == UpdateSummaries(args.summaries, logs, BatchKeys(logs))
    IN  /\ "logs" \in DOMAIN args
        /\ Len(args.logs) + Len(logs) <= MaxLogs
        /\ IF logs = <<>>
           THEN /\ args' = args
                /\ result' = [op |-> "batch", logs |-> logs, status |-> 400]
           ELSE IF \E i \in DOMAIN logs : ~ActivityLogSchema(logs[i])
           THEN /\ args' = args
                /\ result' = [op |-> "batch", logs |-> logs, status |-> 500]
           ELSE /\ args' = [logs |-> args.logs \o logs,
                            summaries |-> summarised.summaries]
                /\ result' = [op |-> "batch", logs |-> logs,
                              status |-> IF summarised.threw THEN 500 ELSE 201]
        /\ UNCHANGED machineVars

NextBackend ==
    \/ \E body \in Bodies : PostActivity(body)
    \/ \E logs \in Batches : PostBatch(logs)

SpecBackend == InitBackend /\ [][NextBackend]_vars

\* C23: a record posted to /api/activity whose fields are valid and whose
\* actionType is typing, paste, delete or cut is answered with success and is
\* stored; a record with another actionType is rejected and not stored.
C23_ValidRecordIsStored ==
    [][\A body \in Bodies :
          PostActivity(body) =>
              IF activityLogValidation(body)
              THEN result'.status = 201 /\ args'.logs = Append(args.logs, body)
              ELSE result'.status = 400 /\ args'.logs = args.logs]_vars

\* the stored logs of a user and date
LogsOfKey(key) ==
    {i \in DOMAIN args.logs : <<args.logs[i].username, args.logs[i].date>> = key}

\* C24: after any sequence of single and batch log creations, the daily
\* summary of a user has totalFilesEdited equal to the number of distinct
\* filePath values among the logs of that user and date.
C24_FilesEditedCountsDistinctPaths ==
    "summaries" \in DOMAIN args =>
        \A key \in SummaryKeys :
            args.summaries[key].exists =>
                args.summaries[key].totalFilesEdited =
                    Cardinality({args.logs[i].filePath : i \in LogsOfKey(key)})

(***************************************************************************)
(* The text utilities specification: countLines and extractSnippet applied *)
(* to a text and a maximal length.                                         *)
(***************************************************************************)
\* the texts of the tests of the utilities, a letter for each word character
TestTexts ==
    {<<"a", LF, "b", LF, "c">>, <<"a", " ", "b">>, <<"a", CR, LF, "b", CR, LF, "c">>,
     <<"a", CR, "b">>, <<"a", " ", "x", " ", "=", " ", "1", ";">>,
     Repeat("a", 2 * SnippetMaxLength)}

\* whitespace at both ends and a run of it between two words
RaggedText == <<" ", "x", LF, CR, "x", "x", " ">>

UtilTexts == SeqsUpTo(Alphabet, MaxTextLen) \cup LongTexts \cup TestTexts \cup {RaggedText}

MaxLengths == {1, 2, SnippetMaxLength \div 2, SnippetMaxLength}

InitUtils ==
    /\ MachineInit
    /\ args \in [text : UtilTexts, maxLength : MaxLengths]
    /\ result = NoValue

ApplyUtils ==
    /\ result = NoValue
    /\ "maxLength" \in DOMAIN args
    /\ result' = [lines |-> countLines(args.text),
                  snippet |-> extractSnippet(args.text, args.maxLength)]
    /\ UNCHANGED <<args, machineVars>>

NextUtils == ApplyUtils

SpecUtils == InitUtils /\ [][NextUtils]_vars

UtilsApplied == result # NoValue /\ "maxLength" \in DOMAIN args

\* the positions of a text where a line break, "\n" or "\r\n", ends
LineBreakEnds(text) ==
    {i \in DOMAIN text :
        \/ SubSeq(text, i, i) = <<LF>>
        \/ i > 1 /\ SubSeq(text, i - 1, i) = <<CR, LF>>}

\* C25: countLines(text) is 0 for the empty text and otherwise the number of
\* line breaks, "\n" or "\r\n", plus one; a carriage return that no line feed
\* follows separates nothing.
C25_CountLines ==
    UtilsApplied =>
        /\ result.lines =
              IF args.text = <<>> THEN 0
              ELSE Cardinality(LineBreakEnds(args.text)) + 1
        /\ (args.text # <<>> /\ LF \notin Range(args.text)) => result.lines = 1

C25_Witness ==
    /\ UtilsApplied
    /\ CR \in Range(args.text)
    /\ \E i \in DOMAIN args.text : args.text[i] = CR /\ (i = Len(args.text) \/ args.text[i + 1] # LF)
    /\ \E i \in DOMAIN args.text : i > 1 /\ args.text[i - 1] = CR /\ args.text[i] = LF
    /\ result.lines = 2

\* the text with every run of whitespace between two words as one space and
\* without the whitespace before the first and after the last word: the
\* characters kept are those of the words and, of each run that has a word
\* on both sides, the first
Normalised(text) ==
    LET word(i) == ~IsWhitespace(text[i])
        kept == {i \in DOMAIN text :
                    \/ word(i)
                    \/ /\ i > 1 /\ word(i - 1)
                       /\ \E j \in DOMAIN text : j > i /\ word(j)}
        nth(k) == CHOOSE i \in kept : Cardinality({j \in kept : j <= i}) = k
    IN  [k \in 1..Cardinality(kept) |->
            IF word(nth(k)) THEN text[nth(k)] ELSE " "]

\* C26: extractSnippet(text, max) is the empty string for the empty text;
\* otherwise it is the text with whitespace runs collapsed to one space and
\* trimmed when that has at most max characters, and its first max
\* characters followed by '...', max + 3 characters in all, when it is longer.
C26_ExtractSnippet ==
    UtilsApplied =>
        LET normal == Normalised(args.text)
        IN  IF args.text = <<>> THEN result.snippet = <<>>
            ELSE IF Len(normal) <= args.maxLength THEN result.snippet = normal
            ELSE /\ result.snippet =
                        SubSeq(normal, 1, args.maxLength) \o <<".", ".", ".">>
                 /\ Len(result.snippet) = args.maxLength + 3

\* a text with whitespace at both ends and a run inside, cut at max
C26_Witness ==
    /\ UtilsApplied
    /\ args.text = RaggedText
    /\ args.maxLength = 2
    /\ result.snippet = <<"x", " ", ".", ".", ".">>

(***************************************************************************)
(* The ratio specification: calculateRatio applied to two counts, and the  *)
(* ratio of the summary the backend keeps after a record with these counts *)
(* is posted to an empty database.                                         *)
(***************************************************************************)
MaxRatioLines == 40

\* the counts of the tests of calculateRatio
TestRatios == {<<100, 50>>, <<150, 50>>, <<100, 0>>, <<0, 0>>, <<10, 3>>}

RatioInputs == ((0..MaxRatioLines) \X (0..MaxRatioLines)) \cup TestRatios

InitRatio ==
    /\ MachineInit
    /\ \E pair \in RatioInputs : args = [typed |-> pair[1], pasted |-> pair[2]]
    /\ result = NoValue

\* the summary of u1 after POST /api/activity of a record with the counts
SummaryAfterPost(typed, pasted) ==
    updateUserSummary([key \in SummaryKeys |-> NoSummary],
                      <<"u1", "2026-01-01">>, typed, pasted,
                      {"a.ts"}).summaries[<<"u1", "2026-01-01">>]

ApplyCalculateRatio ==
    /\ result = NoValue
    /\ "pasted" \in DOMAIN args
    /\ result' = [ratio |-> calculateRatio(args.typed, args.pasted),
                  summary |-> SummaryAfterPost(args.typed, args.pasted)]
    /\ UNCHANGED <<args, machineVars>>

NextRatio == ApplyCalculateRatio

SpecRatio == InitRatio /\ [][NextRatio]_vars

\* the rule of the ratio: 0 without lines, Infinity without pasted lines,
\* else typed / pasted to the nearest hundredth, a half up
RatioRule(typed, pasted) ==
    IF pasted = 0
    THEN (IF typed > 0 THEN Infinity ELSE [hundredths |-> 0])
    ELSE [hundredths |-> RoundHalfUp(100 * typed, pasted)]

\* C27: calculateRatio(typed, pasted) is 0 when both are 0, Infinity when
\* pasted is 0 and typed is not, and otherwise typed / pasted rounded to two
\* decimals; the typingToPastingRatio of the summary of the backend follows
\* the same rule.
C27_RatioRule ==
    (result # NoValue /\ "pasted" \in DOMAIN args) =>
        /\ result.ratio = RatioRule(args.typed, args.pasted)
        /\ result.summary.typingToPastingRatio =
              RatioRule(result.summary.totalTypedLines,
                        result.summary.totalPastedLines)

(***************************************************************************)
(* The save specification: the events of Spec without the close, with      *)
(* `observed` holding, after a save, the file, the counters the session    *)
(* had and the time left on the debounce timer when the handler began.     *)
(***************************************************************************)
\* what the save specification records of a save
SaveBegun(f) ==
    [op |-> "save", file |-> f, timer |-> timer,
     hasSession |-> HasSession(f),
     before |-> IF HasSession(f) THEN heap[SessionAt(f)] ELSE Free]

NextSave ==
    \/ \E f \in Files, changes \in ChangeLists :
          NoRead /\ HandleTextChange(f, changes) /\ observed' = NoValue
    \/ \E t \in DOMAIN tasks, readOk \in BOOLEAN :
          ClipboardReadDone(t, readOk) /\ observed' = NoValue
    \/ \E f \in Files :
          NoRead /\ NoSend /\ HandleDocumentSave(f) /\ observed' = SaveBegun(f)
    \/ NoRead /\ NoSend /\ TimerFire /\ observed' = NoValue
    \/ \E t \in DOMAIN tasks, outcome \in SendOutcomes :
          NoRead /\ SendDone(t, outcome) /\ observed' = SendSettled(t, outcome)
    \/ \E ms \in TimeSteps : NoRead /\ Advance(ms) /\ observed' = NoValue

SpecSave == Init /\ [][NextSave]_vars

\* handleDocumentSave of file f runs in this step
SaveOf(f) ==
    /\ HandleDocumentSave(f)
    /\ IsOp(observed', "save")
    /\ observed'.file = f

\* C28: a save of a file whose session has pending changes reconciles the
\* session first; the record built then carries the reconciled typedLines and
\* pastedLines, and it is handed to the transport in the save handler
\* itself, whatever time is left on the debounce timer, which the handler
\* leaves alone.
C28_SaveReconcilesThenFlushes ==
    [][\A f \in Files :
          (HasSession(f) /\ heap[SessionAt(f)].pendingChanges /\ SaveOf(f)) =>
              LET sid == SessionAt(f)
                  reconciled == Reconcile(heap[sid], docLines[f])
              IN  /\ heap'[sid].typedLines = reconciled.typedLines
                  /\ heap'[sid].pastedLines = reconciled.pastedLines
                  /\ timer' = timer
                  /\ ~NothingToSave(reconciled) =>
                        \E t \in DOMAIN tasks' :
                            /\ tasks'[t].kind = "save"
                            /\ tasks'[t].session = sid
                            /\ Len(tasks'[t].logs) = 1
                            /\ tasks'[t].logs[1].typedLines = reconciled.typedLines
                            /\ tasks'[t].logs[1].pastedLines = reconciled.pastedLines]_vars

\* a save with time left on the debounce timer whose reconciliation changed
\* the counters, and the request with the reconciled counters in flight
C28_Witness ==
    /\ IsOp(observed, "save")
    /\ observed.hasSession
    /\ observed.before.pendingChanges
    /\ observed.timer > 0
    /\ timer = observed.timer
    /\ \E t \in DOMAIN tasks :
          /\ tasks[t].kind = "save"
          /\ heap[tasks[t].session].filePath = observed.file
          /\ tasks[t].logs[1].typedLines = heap[tasks[t].session].typedLines
          /\ tasks[t].logs[1].typedLines # observed.before.typedLines

\* C29: when handleDocumentSave is over for a file that has a session, at
\* once or when its send has settled, the initialLineCount of the session is
\* the line count of the document at that save.
C29_SaveResetsInitialLineCount ==
    [][/\ \A f \in Files :
             (HasSession(f) /\ SaveOf(f) /\ tasks' = tasks) =>
                 heap'[SessionAt(f)].initialLineCount = docLines[f]
       /\ \A t \in DOMAIN tasks, outcome \in SendOutcomes :
             (tasks[t].kind = "save" /\ SendDone(t, outcome)) =>
                 heap'[tasks[t].session].initialLineCount =
                     tasks[t].currentLineCount]_vars

(***************************************************************************)
(* The retry specification: the events of Spec and dispose, with           *)
(* `observed` holding for each session in the table the counts of its last *)
(* flush attempt when that attempt failed and none has followed it.        *)
(***************************************************************************)
NoFailure == [failed |-> FALSE, typedLines |-> 0, pastedLines |-> 0]

\* the failed attempt the specification remembers for a session
FailedAttempt(sid) ==
    IF IsOp(observed, "retry") THEN observed.failed[sid] ELSE NoFailure

\* the requests a step hands to the transport
StartedSends ==
    {task \in Range(tasks') : Sending(task)} \ {task \in Range(tasks) : Sending(task)}

\* what the specification remembers after a step in which no send settles
AttemptsAfterStep ==
    [op |-> "retry",
     failed |-> [sid \in SessionIds |->
                    IF sid \notin Range(sessions') THEN NoFailure
                    ELSE IF \E task \in StartedSends : task.session = sid
                    THEN NoFailure
                    ELSE FailedAttempt(sid)]]

\* what the specification remembers after the send of task t has settled
AttemptsAfterSend(t, outcome) ==
    [op |-> "retry",
     failed |-> [sid \in SessionIds |->
                    IF sid \notin Range(sessions') THEN NoFailure
                    ELSE IF sid = tasks[t].session
                    THEN (IF sendActivityLog(outcome) THEN NoFailure
                          ELSE [failed |-> TRUE,
                                typedLines |-> SumOf(tasks[t].logs, "typedLines"),
                                pastedLines |-> SumOf(tasks[t].logs, "pastedLines")])
                    ELSE IF \E task \in StartedSends : task.session = sid
                    THEN NoFailure
                    ELSE FailedAttempt(sid)]]

NextRetry ==
    \/ \E f \in Files, changes \in ChangeLists :
          NoRead /\ HandleTextChange(f, changes) /\ observed' = AttemptsAfterStep
    \/ \E t \in DOMAIN tasks, readOk \in BOOLEAN :
          ClipboardReadDone(t, readOk) /\ observed' = AttemptsAfterStep
    \/ \E f \in Files :
          NoRead /\ NoSend /\ HandleDocumentSave(f) /\ observed' = AttemptsAfterStep
    \/ \E f \in Files :
          NoRead /\ NoSend /\ HandleDocumentClose(f) /\ observed' = AttemptsAfterStep
    \/ NoRead /\ NoSend /\ TimerFire /\ observed' = AttemptsAfterStep
    \/ NoRead /\ NoSend /\ Dispose /\ observed' = AttemptsAfterStep
    \/ \E t \in DOMAIN tasks, outcome \in SendOutcomes :
          NoRead /\ SendDone(t, outcome) /\ observed' = AttemptsAfterSend(t, outcome)
    \/ \E ms \in TimeSteps : NoRead /\ Advance(ms) /\ observed' = AttemptsAfterStep

SpecRetry == Init /\ [][NextRetry]_vars

\* C30: after a flush of a session has failed, the next flush attempt for
\* the session, by the timer, a save, a close or the shutdown, carries
\* typedLines and pastedLines each at least those of the failed attempt.
C30_RetryCarriesAtLeastAsMuch ==
    [][\A task \in StartedSends :
          FailedAttempt(task.session).failed =>
              /\ SumOf(task.logs, "typedLines") >=
                    FailedAttempt(task.session).typedLines
              /\ SumOf(task.logs, "pastedLines") >=
                    FailedAttempt(task.session).pastedLines]_vars

(***************************************************************************)
(* The clipboard read specification: change events arrive also while a     *)
(* clipboard read is awaited, and time passes in steps of half the cache   *)
(* time.  `observed` holds the time since the last clipboard read began,   *)
(* and of a step that began a read, the time its predecessor was old.      *)
(***************************************************************************)
\* the time since the last clipboard read began; the constructor begins one
SinceRead == IF IsOp(observed, "reads") THEN observed.since ELSE 0

\* a handler step calls readText: a change begins its read, or a read that
\* settles is followed by the read of the next change of its event
ReadBegins ==
    Cardinality({t \in DOMAIN tasks' : Reading(tasks'[t])})
        > Cardinality({t \in DOMAIN tasks : Reading(tasks[t])})
    \/ /\ Len(tasks') = Len(tasks)
       /\ tasks' # tasks
       /\ Reading(tasks'[Len(tasks')])
       /\ tasks'[Len(tasks')].elapsed = 0
       /\ tasks'[Len(tasks')] \notin Range(tasks)

ReadsAfterStep ==
    [op |-> "reads", began |-> ReadBegins, gap |-> SinceRead,
     since |-> IF ReadBegins THEN 0 ELSE SinceRead]

ReadsAfterAdvance(ms) ==
    [op |-> "reads", began |-> FALSE, gap |-> SinceRead,
     since |-> Saturate(SinceRead + ms)]

NextReads ==
    \/ \E f \in Files, changes \in ChangeLists :
          HandleTextChange(f, changes) /\ observed' = ReadsAfterStep
    \/ \E t \in DOMAIN tasks, readOk \in BOOLEAN :
          ClipboardReadDone(t, readOk) /\ observed' = ReadsAfterStep
    \/ NoRead /\ NoSend /\ TimerFire /\ observed' = ReadsAfterStep
    \/ \E t \in DOMAIN tasks, outcome \in SendOutcomes :
          NoRead /\ SendDone(t, outcome) /\ observed' = ReadsAfterStep
    \/ \E ms \in SampleSteps : Advance(ms) /\ observed' = ReadsAfterAdvance(ms)

SpecReads == Init /\ [][NextReads]_vars

\* C31: any two clipboard reads, the one of the constructor included, begin
\* at least ClipboardCacheMs apart, also when change events arrive while an
\* earlier read is awaited.
C31_ReadsAtLeastCacheTimeApart ==
    (IsOp(observed, "reads") /\ observed.began) => observed.gap >= ClipboardCacheMs

\* C32: once dispose has completed no debounce timer is armed, and the
\* debounce timeout does not fire afterwards.
C32_DisposeCancelsTimer ==
    [][/\ phase' = "deactivated" => timer' = NoTimer
       /\ phase = "deactivated" => ~TimerFires]_vars

\* C33: getOrCreateSession for a path without a session puts exactly one
\* session into the Map, with typedLines, pastedLines and deletedLines 0, no
\* snippets, pendingChanges false and initialLineCount the line count of the
\* document; for a path that has a session it returns that session and
\* changes nothing; the Map never holds two sessions of one path.
C33_GetOrCreate ==
    /\ \A i, j \in DOMAIN sessions :
          heap[sessions[i]].filePath = heap[sessions[j]].filePath => i = j
    /\ \A f \in Files :
          (HasSession(f) \/ \E id \in SessionIds : heap[id] = Free) =>
              LET got == getOrCreateSession(heap, sessions, f, docLines[f])
              IN  IF HasSession(f)
                  THEN /\ got.heap = heap
                       /\ got.sessions = sessions
                       /\ got.sid = SessionAt(f)
                  ELSE /\ Len(got.sessions) = Len(sessions) + 1
                       /\ SubSeq(got.sessions, 1, Len(sessions)) = sessions
                       /\ got.sessions[Len(got.sessions)] = got.sid
                       /\ got.sid \notin Range(sessions)
                       /\ \A id \in SessionIds \ {got.sid} : got.heap[id] = heap[id]
                       /\ got.heap[got.sid] =
                             [filePath |-> f, typedLines |-> 0, pastedLines |-> 0,
                              deletedLines |-> 0, contentSnippets |-> <<>>,
                              initialLineCount |-> docLines[f],
                              pendingChanges |-> FALSE]

\* a change on b.ts has just created its session, which waits for its
\* clipboard read, next to the session of a.ts, which has lines counted
C33_Witness ==
    /\ Len(sessions) = 2
    /\ HasSession("a.ts") /\ HasSession("b.ts")
    /\ heap[SessionAt("a.ts")].typedLines + heap[SessionAt("a.ts")].pastedLines > 0
    /\ heap[SessionAt("b.ts")] =
          [filePath |-> "b.ts", typedLines |-> 0, pastedLines |-> 0,
           deletedLines |-> 0, contentSnippets |-> <<>>,
           initialLineCount |-> docLines["b.ts"], pendingChanges |-> FALSE]
    /\ \E t \in DOMAIN tasks : Reading(tasks[t]) /\ tasks[t].session = SessionAt("b.ts")

(***************************************************************************)
(* Claims about the counters, checked under SpecSample, where every change *)
(* event holds one change                                                  *)
(***************************************************************************)
\* the counters of `after` are those of `before` with the lineCount of the
\* change event added to the one its category names
CountedOnce(before, after, changeEvent) ==
    /\ after.deletedLines - before.deletedLines =
          IF changeEvent.isDelete THEN changeEvent.lineCount ELSE 0
    /\ after.pastedLines - before.pastedLines =
          IF ~changeEvent.isDelete /\ changeEvent.isPaste
          THEN changeEvent.lineCount ELSE 0
    /\ after.typedLines - before.typedLines =
          IF ~changeEvent.isDelete /\ ~changeEvent.isPaste
          THEN changeEvent.lineCount ELSE 0

\* C34: a change event that is applied adds its lineCount to deletedLines if
\* it is a deletion, to pastedLines if it is a paste and to typedLines
\* otherwise, and leaves the other two counters as they were; no counter of
\* a session is ever negative.
C34_OneCounterPerChange ==
    [][/\ (ChangeHandled /\ ~ReadStarted) =>
             LET f == observed'.file
                 change == observed'.changes[1]
             IN  \E id \in Range(sessions') :
                     /\ heap'[id].filePath = f
                     /\ CountedOnce(IF HasSession(f) THEN heap[SessionAt(f)]
                                    ELSE NewSession(f, docLines'[f]),
                                    heap'[id],
                                    classify(change.text, change.rangeLength,
                                             clipboardText))
       /\ (IsOp(observed', "read") /\ observed'.kind = "change") =>
             LET change == observed'.changes[1]
             IN  CountedOnce(heap[observed'.session], heap'[observed'.session],
                             classify(change.text, change.rangeLength,
                                      clipboardText'))
       /\ \A id \in SessionIds :
             heap'[id] # Free =>
                 /\ heap'[id].typedLines >= 0
                 /\ heap'[id].pastedLines >= 0
                 /\ heap'[id].deletedLines >= 0]_vars

\* a paste has just been counted for a session that had typed and deleted
\* lines
C34_Witness ==
    /\ IsOp(observed, "change")
    /\ observed.changes[1].text = Block
    /\ clipboardText = Block
    /\ \E id \in Range(sessions) :
          /\ heap[id].filePath = observed.file
          /\ heap[id].pastedLines = 3
          /\ heap[id].typedLines + heap[id].deletedLines > 0

\* C35: the record saveSession hands to the transport has the actionType
\* of the majority of its lines, 'typing' when typedLines >= pastedLines and
\* 'paste' when pastedLines > typedLines, and never 'delete' or 'cut'.
C35_MajorityActionType ==
    \A log \in RecordsInFlight :
        /\ log.typedLines >= log.pastedLines => log.actionType = "typing"
        /\ log.pastedLines > log.typedLines => log.actionType = "paste"
        /\ log.actionType \notin {"delete", "cut"}

\* a record of as many typed as pasted lines is in flight as 'typing', sent
\* by a save that reconciled the session
C35_Witness ==
    /\ IsOp(observed, "save")
    /\ \E log \in RecordsInFlight :
          /\ log.typedLines = log.pastedLines
          /\ log.typedLines > 0
          /\ log.actionType = "typing"
          /\ docLines[log.filePath] > heap[SessionAt(log.filePath)].initialLineCount

\* C36: when a send settles with success, the lines its session has counted
\* beyond those of the record sent, from changes applied while the request
\* was in flight, are still in the counters of the session.
C36_SuccessKeepsUnsentLines ==
    [][\A t \in DOMAIN tasks :
          (/\ Sending(tasks[t])
           /\ SendDone(t, "ok")
           /\ observed' = SendSettled(t, "ok")
           /\ heap'[tasks[t].session] # Free) =>
              /\ heap'[tasks[t].session].typedLines =
                    heap[tasks[t].session].typedLines
                        - SumOf(tasks[t].logs, "typedLines")
              /\ heap'[tasks[t].session].pastedLines =
                    heap[tasks[t].session].pastedLines
                        - SumOf(tasks[t].logs, "pastedLines")]_vars

(***************************************************************************)
(* The overlap specification: the save handler and the debounce timeout    *)
(* run also while a request is in flight, as the listeners and the timer   *)
(* of the extension let them; at most MaxSends requests are in flight.     *)
(***************************************************************************)
MaxSends == 2

\* the requests in flight
SendsInFlight == {t \in DOMAIN tasks : Sending(tasks[t])}

NextOverlap ==
    \/ \E f \in Files, changes \in ChangeLists :
          NoRead /\ HandleTextChange(f, changes) /\ observed' = NoValue
    \/ \E t \in DOMAIN tasks, readOk \in BOOLEAN :
          ClipboardReadDone(t, readOk) /\ observed' = NoValue
    \/ \E f \in Files :
          /\ NoRead /\ Cardinality(SendsInFlight) < MaxSends
          /\ HandleDocumentSave(f) /\ observed' = [op |-> "save", file |-> f]
    \/ /\ NoRead /\ Cardinality(SendsInFlight) < MaxSends
       /\ TimerFire /\ observed' = [op |-> "timer"]
    \/ \E t \in DOMAIN tasks, outcome \in SendOutcomes :
          NoRead /\ SendDone(t, outcome) /\ observed' = SendSettled(t, outcome)
    \/ \E ms \in TimeSteps : NoRead /\ Advance(ms) /\ observed' = NoValue

SpecOverlap == Init /\ [][NextOverlap]_vars

\* C37: at no time are two requests in flight for one session, whichever of
\* the debounce timeout, a save, a close or the shutdown sent them.
C37_OneSendPerSession ==
    \A t, u \in SendsInFlight : tasks[t].session = tasks[u].session => t = u

(***************************************************************************)
(* The baseline specification: the events of Spec, with `observed` holding *)
(* for each session the line count its document had when its last flush    *)
(* began, and the send that has just settled.                              *)
(***************************************************************************)
\* the line counts at the begin of the flushes, after a step
FlushBegunAt ==
    [sid \in SessionIds |->
        IF \E task \in StartedSends : task.session = sid
        THEN docLines'[heap'[sid].filePath]
        ELSE IF IsOp(observed, "flush") THEN observed.at[sid] ELSE 0]

FlushesAfterStep == [op |-> "flush", at |-> FlushBegunAt, done |-> <<>>]

FlushesAfterSend(t, outcome) ==
    [op |-> "flush", at |-> FlushBegunAt,
     done |-> <<[session |-> tasks[t].session, outcome |-> outcome]>>]

NextBaseline ==
    \/ \E f \in Files, changes \in ChangeLists :
          NoRead /\ HandleTextChange(f, changes) /\ observed' = FlushesAfterStep
    \/ \E t \in DOMAIN tasks, readOk \in BOOLEAN :
          ClipboardReadDone(t, readOk) /\ observed' = FlushesAfterStep
    \/ \E f \in Files :
          NoRead /\ NoSend /\ HandleDocumentSave(f) /\ observed' = FlushesAfterStep
    \/ \E f \in Files :
          NoRead /\ NoSend /\ HandleDocumentClose(f) /\ observed' = FlushesAfterStep
    \/ NoRead /\ NoSend /\ TimerFire /\ observed' = FlushesAfterStep
    \/ \E t \in DOMAIN tasks, outcome \in SendOutcomes :
          NoRead /\ SendDone(t, outcome) /\ observed' = FlushesAfterSend(t, outcome)
    \/ \E ms \in TimeSteps : NoRead /\ Advance(ms) /\ observed' = FlushesAfterStep

SpecBaseline == Init /\ [][NextBaseline]_vars

\* C38: when a flush of a session has succeeded, whether a save or the
\* debounce timeout began it, the initialLineCount of the session is the line
\* count its document had at that flush.
C38_FlushResetsBaseline ==
    (IsOp(observed, "flush") /\ observed.done # <<>>) =>
        LET sid == observed.done[1].session
        IN  (observed.done[1].outcome = "ok" /\ sid \in Range(sessions)) =>
                heap[sid].initialLineCount = observed.at[sid]

(***************************************************************************)
(* The drain specification: changes arrive, every request succeeds, and    *)
(* neither a save nor a close happens.  The event loop is fair: a read or  *)
(* a request that is awaited settles, time passes, and a timeout that is   *)
(* due fires.  `observed` holds the lines the change handler has counted   *)
(* as typed or pasted and the lines of the records handed to the           *)
(* transport.                                                              *)
(***************************************************************************)
\* typedLines + pastedLines over the sessions ss of the objects h
RECURSIVE LinesCounted(_, _)
LinesCounted(h, ss) ==
    IF ss = <<>> THEN 0
    ELSE h[Head(ss)].typedLines + h[Head(ss)].pastedLines + LinesCounted(h, Tail(ss))

RECURSIVE LinesHanded(_)
LinesHanded(started) ==
    IF started = {} THEN 0
    ELSE LET task == CHOOSE task \in started : TRUE
         IN  SumOf(task.logs, "totalLines") + LinesHanded(started \ {task})

DrainCounted == IF IsOp(observed, "drain") THEN observed.counted ELSE 0
DrainHanded == IF IsOp(observed, "drain") THEN observed.handed ELSE 0

\* after a step of the change handler
DrainAfterChange ==
    [op |-> "drain",
     counted |-> DrainCounted + LinesCounted(heap', sessions')
                     - LinesCounted(heap, sessions),
     handed |-> DrainHanded]

\* after a step that hands records to the transport or passes time
DrainAfterStep ==
    [op |-> "drain", counted |-> DrainCounted,
     handed |-> DrainHanded + LinesHanded(StartedSends)]

\* the steps the event loop takes by itself
NextDrainLoop ==
    \/ \E t \in DOMAIN tasks, readOk \in BOOLEAN :
          ClipboardReadDone(t, readOk) /\ observed' = DrainAfterChange
    \/ NoRead /\ NoSend /\ TimerFire /\ observed' = DrainAfterStep
    \/ \E t \in DOMAIN tasks :
          NoRead /\ SendDone(t, "ok") /\ observed' = DrainAfterStep
    \/ \E ms \in TimeSteps : NoRead /\ Advance(ms) /\ observed' = DrainAfterStep

NextDrain ==
    \/ \E f \in Files, changes \in ChangeLists :
          NoRead /\ HandleTextChange(f, changes) /\ observed' = DrainAfterChange
    \/ NextDrainLoop

SpecDrain == Init /\ [][NextDrain]_vars /\ WF_vars(NextDrainLoop)

\* C39: when the changes have stopped and every send succeeds, the debounce
\* timeout alone brings every session to typedLines = 0 and pastedLines = 0
\* for good, every line counted having been handed to the transport.
C39_TimerDrainsEverySession ==
    <>[](/\ \A id \in Range(sessions) :
               heap[id].typedLines = 0 /\ heap[id].pastedLines = 0
         /\ DrainCounted = DrainHanded)

(***************************************************************************)
(* The log store specification: the backend with the routes that update    *)
(* and delete a stored log.  A log is identified by its place among the    *)
(* stored logs; an id past the last log is the id of no log.               *)
(***************************************************************************)
MaxSummaryLines == 4

LogIds == 1..MaxLogs

\* the request bodies of PUT /api/activity/:id, one field each
Updates ==
    {[typedLines |-> n] : n \in (0 - 1)..2}
        \cup {[pastedLines |-> n] : n \in 0..1}
        \cup {[actionType |-> "cut"], [username |-> "u2"]}

\* the bodies and the batches sent to the log store: typing in one file
StoreBodies ==
    {body \in Bodies : body.filePath = "a.ts" /\ body.actionType = "typing"}

StoreBatches ==
    {logs \in Batches :
        \A i \in DOMAIN logs :
            /\ logs[i].filePath = "a.ts"
            /\ logs[i].actionType = "typing"
            /\ logs[i].pastedLines = 0}

\* runValidators: the validators of the schema on the paths of the update
UpdateValidators(update) ==
    /\ "username" \in DOMAIN update => update.username # ""
    /\ "actionType" \in DOMAIN update => update.actionType \in SchemaActionTypes
    /\ "typedLines" \in DOMAIN update => update.typedLines >= 0
    /\ "pastedLines" \in DOMAIN update => update.pastedLines >= 0

\* the stored log with the paths of the update set
UpdatedLog(log, update) ==
    [path \in DOMAIN log |->
        IF path \in DOMAIN update THEN update[path] ELSE log[path]]

\* PUT /api/activity/:id
PutActivity(id, update) ==
    /\ "logs" \in DOMAIN args
    /\ IF ~UpdateValidators(update)
       THEN /\ args' = args
            /\ result' = [op |-> "put", id |-> id, status |-> 500]
       ELSE IF id \notin DOMAIN args.logs
       THEN /\ args' = args
            /\ result' = [op |-> "put", id |-> id, status |-> 404]
       ELSE /\ args' = [args EXCEPT !.logs[id] = UpdatedLog(@, update)]
            /\ result' = [op |-> "put", id |-> id, status |-> 200]
    /\ UNCHANGED machineVars

\* DELETE /api/activity/:id
DeleteActivity(id) ==
    /\ "logs" \in DOMAIN args
    /\ IF id \notin DOMAIN args.logs
       THEN /\ args' = args
            /\ result' = [op |-> "delete", id |-> id, status |-> 404]
       ELSE /\ args' = [args EXCEPT !.logs =
                           SubSeq(@, 1, id - 1) \o SubSeq(@, id + 1, Len(@))]
            /\ result' = [op |-> "delete", id |-> id, status |-> 200]
    /\ UNCHANGED machineVars

\* the lines of all the summaries
RECURSIVE SummaryLines(_, _)
SummaryLines(summaries, keys) ==
    IF keys = {} THEN 0
    ELSE LET key == CHOOSE key \in keys : TRUE
         IN  (IF summaries[key].exists
              THEN summaries[key].totalTypedLines + summaries[key].totalPastedLines
              ELSE 0) + SummaryLines(summaries, keys \ {key})

\* logs are created while the summaries hold fewer than MaxSummaryLines lines
NextStore ==
    \/ \E body \in StoreBodies :
          /\ "summaries" \in DOMAIN args
          /\ SummaryLines(args.summaries, SummaryKeys) < MaxSummaryLines
          /\ PostActivity(body)
    \/ \E logs \in StoreBatches :
          /\ "summaries" \in DOMAIN args
          /\ SummaryLines(args.summaries, SummaryKeys) < MaxSummaryLines
          /\ PostBatch(logs)
    \/ \E id \in LogIds, update \in Updates : PutActivity(id, update)
    \/ \E id \in LogIds : DeleteActivity(id)

SpecStore == InitBackend /\ [][NextStore]_vars

\* the sum of a field over the stored logs of a user and date
RECURSIVE SumOfLogs(_, _)
SumOfLogs(ids, field) ==
    IF ids = {} THEN 0
    ELSE LET id == CHOOSE id \in ids : TRUE
         IN  args.logs[id][field] + SumOfLogs(ids \ {id}, field)

\* C40: after any sequence of creations, batch creations, updates and
\* deletions of logs, the summary of each user and date has totalTypedLines
\* and totalPastedLines equal to the sums of typedLines and pastedLines over
\* the logs stored for that user and date.
C40_SummaryTotalsAreSums ==
    "summaries" \in DOMAIN args =>
        \A key \in SummaryKeys :
            LET typed == SumOfLogs(LogsOfKey(key), "typedLines")
                pasted == SumOfLogs(LogsOfKey(key), "pastedLines")
            IN  IF args.summaries[key].exists
                THEN /\ args.summaries[key].totalTypedLines = typed
                     /\ args.summaries[key].totalPastedLines = pasted
                ELSE typed = 0 /\ pasted = 0

=============================================================================
